---- MODULE Spec2Model ----
(***************************************************************************)
(* A model of the UV irradiance simulator: the uniform spatial grid and    *)
(* its 3D-DDA walk, the ray-triangle test and the Tracer, the forward      *)
(* photon tracer and the IntensityCalculator with its photon cache.        *)
(*                                                                         *)
(* Numbers.  Positions are integer triples <<x, y, z>>.  Python floats are *)
(* modelled by exact rationals <<n, d>> (d > 0, lowest terms).  A ray      *)
(* direction is kept unnormalised (D, with L2 = D.D): the code's           *)
(* normalised direction is D / sqrt(L2), so a distance t along the ray is  *)
(* sqrt(L2) * tn / td for integers tn, td, and every comparison the code   *)
(* makes on such values is decided exactly on squares.                     *)
(***************************************************************************)
EXTENDS Integers, Sequences, FiniteSets, TLC

VARIABLES
    triangles,    \* Tracer.triangles / IntensityCalculator.triangles: the mesh
    cell_size,    \* SpatialGrid.cell_size
    grid,         \* SpatialGrid.grid: cell key -> list of triangles (indices)
    query         \* the last query made on the Tracer and what it returned

geomVars == <<triangles, cell_size, grid, query>>

VARIABLES
    max_bounces,        \* PhotonTracingConfig.max_bounces
    photons_per_light,  \* PhotonTracingConfig.photons_per_light
    kernel_radius,      \* PhotonTracingConfig.kernel_radius
    pc,                 \* where trace_indirect_exposure stands: "idle", "emit"
                        \* (the photon loop), "from_light", "reflected", "done",
                        \* or the exception it ended in
    sample_points,      \* trace_indirect_exposure's sample_points
    lights,             \* trace_indirect_exposure's lights
    light_idx,          \* index of the light being traced (from 0)
    photon_idx,         \* index of the photon being traced (from 0)
    photon_flux,        \* flux of the photon in flight
    photon_bounce,      \* bounce of the _trace_reflected_photon invocation
    photon_origin,      \* what the next ray is cast from: "lamp" or "surface"
    indirect_exposure,  \* the deposition map: point index -> exposure
    ray_casts,          \* trace_ray calls made for the photon in flight
    deposit_hits,       \* hits at which the photon in flight ran the deposit loop
    depth               \* nested _trace_reflected_photon invocations

configVars == <<max_bounces, photons_per_light, kernel_radius>>

photonVars == <<pc, sample_points, lights, light_idx, photon_idx, photon_flux,
                photon_bounce, photon_origin, indirect_exposure,
                ray_casts, deposit_hits, depth>>

VARIABLES
    photon_cache,   \* IntensityCalculator._photon_cache: None or the deposition map
    cached_lights,  \* IntensityCalculator._cached_lights: None or a light list
    last_call,      \* the last call made on the calculator and what it returned
    calls,          \* calls made on the calculator so far
    trace_count,    \* trace_indirect_exposure invocations so far
    cache_source    \* the (points, lights) _photon_cache was traced for, if any

calcVars == <<photon_cache, cached_lights, last_call, calls, trace_count, cache_source>>

VARIABLES
    rng,          \* state of the process-wide random source (module random)
    sample_call   \* the last generate_measurement_points call and what it returned

samplerVars == <<rng, sample_call>>

VARIABLE
    survival_call   \* the last calculate_survival call and what it returned

----------------------------------------------------------------------------
(* Bounds of the model *)

\* coordinates of mesh vertices, query points and lamps range over 0..MaxCoord
MaxCoord == 4

----------------------------------------------------------------------------
(* Arithmetic helpers *)

Abs(x) == IF x < 0 THEN -x ELSE x

Sgn(x) == IF x < 0 THEN -1 ELSE IF x > 0 THEN 1 ELSE 0

Min2(a, b) == IF a < b THEN a ELSE b

Max2(a, b) == IF a > b THEN a ELSE b

Min3(a, b, c) == Min2(a, Min2(b, c))

Max3(a, b, c) == Max2(a, Max2(b, c))

CeilDiv(a, b) == (a + b - 1) \div b

RECURSIVE GCD(_, _)
GCD(a, b) == IF b = 0 THEN a ELSE GCD(b, a % b)

\* EPSILON = 1e-6 (as its inverse) and EDGE_TOLERANCE = 1e-4 (as its inverse)
EpsilonInv == 1000000

EdgeToleranceInv == 10000

\* x < y * EPSILON^2 and x > y * EPSILON^2 for integers x, y >= 0, without
\* forming the product x * 10^12
LtEpsSq(x, y) == x < CeilDiv(CeilDiv(y, EpsilonInv), EpsilonInv)

GtEpsSq(x, y) == x > (y \div EpsilonInv) \div EpsilonInv

(* Floats as exact rationals <<n, d>>, d > 0, in lowest terms *)

Rat(n, d) ==
    LET g == GCD(Abs(n), Abs(d))
    IN  IF n = 0 THEN <<0, 1>> ELSE <<Sgn(d) * (n \div g), Abs(d) \div g>>

Zero == <<0, 1>>

One == <<1, 1>>

RatAdd(p, q) ==
    LET l == (p[2] \div GCD(p[2], q[2])) * q[2]
    IN  Rat(p[1] * (l \div p[2]) + q[1] * (l \div q[2]), l)

RatNeg(p) == <<-p[1], p[2]>>

RatSub(p, q) == RatAdd(p, RatNeg(q))

RatMul(p, q) ==
    LET g1 == GCD(Abs(p[1]), q[2])
        g2 == GCD(Abs(q[1]), p[2])
    IN  IF p[1] = 0 \/ q[1] = 0 THEN Zero
        ELSE <<(p[1] \div g1) * (q[1] \div g2), (p[2] \div g2) * (q[2] \div g1)>>

\* p / q for q # 0
RatDiv(p, q) == RatMul(p, <<Sgn(q[1]) * q[2], Abs(q[1])>>)

RatLt(p, q) == p[1] * q[2] < q[1] * p[2]

RatLe(p, q) == p[1] * q[2] <= q[1] * p[2]

----------------------------------------------------------------------------
(* Vector3 *)

add(a, b) == <<a[1] + b[1], a[2] + b[2], a[3] + b[3]>>

subtract(a, b) == <<a[1] - b[1], a[2] - b[2], a[3] - b[3]>>

multiply(a, k) == <<a[1] * k, a[2] * k, a[3] * k>>

dot(a, b) == a[1] * b[1] + a[2] * b[2] + a[3] * b[3]

cross(a, b) ==
    << a[2] * b[3] - a[3] * b[2],
       a[3] * b[1] - a[1] * b[3],
       a[1] * b[2] - a[2] * b[1] >>

\* length() squared: length(a) = sqrt(lengthSq(a))
lengthSq(a) == dot(a, a)

----------------------------------------------------------------------------
(* Triangle *)

Triangle(v0, v1, v2, rho) == [v0 |-> v0, v1 |-> v1, v2 |-> v2, reflectivity |-> rho]

\* Triangle.normal before normalize(): edge1 x edge2 (same direction, length
\* twice the area)
normal(tri) == cross(subtract(tri.v1, tri.v0), subtract(tri.v2, tri.v0))

\* 3 * get_center()
get_center3(tri) == add(add(tri.v0, tri.v1), tri.v2)

get_bounds(tri) ==
    [ min |-> << Min3(tri.v0[1], tri.v1[1], tri.v2[1]),
                 Min3(tri.v0[2], tri.v1[2], tri.v2[2]),
                 Min3(tri.v0[3], tri.v1[3], tri.v2[3]) >>,
      max |-> << Max3(tri.v0[1], tri.v1[1], tri.v2[1]),
                 Max3(tri.v0[2], tri.v1[2], tri.v2[2]),
                 Max3(tri.v0[3], tri.v1[3], tri.v2[3]) >> ]

----------------------------------------------------------------------------
(* SpatialGrid *)

\* int(pos.x // cell_size): floor division
position_to_cell(pos, cs) == <<pos[1] \div cs, pos[2] \div cs, pos[3] \div cs>>

\* (mutant) the cell loops stop one short of max_cell
TriangleCells_ExclusiveMax(tri, cs) ==
    LET lo == <<get_bounds(tri).min[1] \div cs, get_bounds(tri).min[2] \div cs,
                get_bounds(tri).min[3] \div cs>>
        hi == <<get_bounds(tri).max[1] \div cs, get_bounds(tri).max[2] \div cs,
                get_bounds(tri).max[3] \div cs>>
    IN  { <<x, y, z>> : x \in lo[1]..(hi[1] - 1), y \in lo[2]..(hi[2] - 1),
                        z \in lo[3]..(hi[3] - 1) }

\* the cells one triangle is appended to by _build_grid
TriangleCells(tri, cs) ==
    LET lo == position_to_cell(get_bounds(tri).min, cs)
        hi == position_to_cell(get_bounds(tri).max, cs)
    IN  { <<x, y, z>> : x \in lo[1]..hi[1], y \in lo[2]..hi[2], z \in lo[3]..hi[3] }

\* _build_grid: the dictionary has a key for every cell some triangle was
\* appended to, and holds the triangles (their indices in the mesh) in the
\* order they were appended
build_grid(tris, cs) ==
    LET keys == UNION { TriangleCells(tris[i], cs) : i \in 1..Len(tris) }
    IN  [ c \in keys |->
            SelectSeq([i \in 1..Len(tris) |-> i],
                      LAMBDA i : c \in TriangleCells(tris[i], cs)) ]

\* self.grid[key] when key is in the grid, else nothing
get_cell(g, c) == IF c \in DOMAIN g THEN { g[c][k] : k \in 1..Len(g[c]) } ELSE {}

(* The 3D-DDA walk.  Along axis i the next boundary is at
   t_max = sqrt(L2) * n[i] / |D[i]| (infinite when D[i] = 0), and t_delta
   adds cs to n[i]. *)

\* t_max of axis i < t_max of axis j
TMaxLess(D, n, i, j) ==
    /\ D[i] # 0
    /\ \/ D[j] = 0
       \/ n[i] * Abs(D[j]) < n[j] * Abs(D[i])

\* t >= max_distance for t = t_max of axis i, max_distance^2 = maxSq
TMaxBeyond(D, L2, n, i, maxSq) ==
    \/ D[i] = 0
    \/ n[i] * n[i] * L2 >= maxSq * D[i] * D[i]

\* the axis the walk steps along next (lines 148-177: x only when strictly
\* smallest, y when not larger than x and strictly smaller than z, else z)
NextAxis(D, n) ==
    IF TMaxLess(D, n, 1, 2)
    THEN IF TMaxLess(D, n, 1, 3) THEN 1 ELSE 3
    ELSE IF TMaxLess(D, n, 2, 3) THEN 2 ELSE 3

RECURSIVE DDAWalk(_, _, _, _, _, _, _)
DDAWalk(cs, D, L2, maxSq, cell, n, visited) ==
    LET seen == visited \cup {cell}
        ax   == NextAxis(D, n)
        step == IF D[ax] >= 0 THEN 1 ELSE -1
    IN  IF TMaxBeyond(D, L2, n, ax, maxSq)
        THEN seen
        ELSE DDAWalk(cs, D, L2, maxSq,
                     [cell EXCEPT ![ax] = cell[ax] + step],
                     [n EXCEPT ![ax] = n[ax] + cs],
                     seen)

\* the cells get_triangles_along_ray visits for the ray from origin along D
\* (D # 0), up to max_distance = sqrt(maxSq)
VisitedCells(cs, origin, D, maxSq) ==
    LET start == position_to_cell(origin, cs)
        n0 == [ i \in 1..3 |->
                  IF D[i] > 0 THEN cs * (start[i] + 1) - origin[i]
                  ELSE IF D[i] < 0 THEN origin[i] - cs * start[i]
                  ELSE 0 ]
    IN  IF maxSq > 0
        THEN DDAWalk(cs, D, lengthSq(D), maxSq, start, n0, {})
        ELSE {}

get_triangles_along_ray(g, cs, origin, D, maxSq) ==
    UNION { get_cell(g, c) : c \in VisitedCells(cs, origin, D, maxSq) }

----------------------------------------------------------------------------
(* ray_triangle_intersection *)

NoHit == [hit |-> FALSE, tn |-> 0, td |-> 1]

\* (mutant) the facing test with its sign reversed
FacingAway_Reversed(origin, tri) ==
    dot(normal(tri), subtract(get_center3(tri), multiply(origin, 3))) > 0

\* the facing test: normal . (center - origin).normalize() < 0 rejects
FacingAway(origin, tri) ==
    dot(normal(tri), subtract(get_center3(tri), multiply(origin, 3))) < 0

\* Moeller-Trumbore for the ray from origin along D / sqrt(L2).  The returned
\* distance is sqrt(L2) * tn / td.
ray_triangle_intersection(origin, D, tri) ==
    LET L2    == lengthSq(D)
        edge1 == subtract(tri.v1, tri.v0)
        edge2 == subtract(tri.v2, tri.v0)
        h     == cross(D, edge2)               \* h * sqrt(L2)
        a     == dot(edge1, h)                 \* a * sqrt(L2)
        s     == subtract(origin, tri.v0)
        ad    == Abs(a)
        un    == Sgn(a) * dot(s, h)            \* u = un / ad
        q     == cross(s, edge1)
        vn    == Sgn(a) * dot(D, q)            \* v = vn / ad
        tn    == Sgn(a) * dot(edge2, q)        \* t = sqrt(L2) * tn / ad
        K     == EdgeToleranceInv
    IN  IF LtEpsSq(a * a, L2)                                  \* abs(a) < EPSILON
        THEN NoHit
        ELSE IF un * K < -ad \/ un * K > ad * K + ad           \* u out of range
        THEN NoHit
        ELSE IF vn * K < -ad \/ (un + vn) * K > ad * K + ad    \* v out of range
        THEN NoHit
        ELSE IF tn <= 0 \/ LtEpsSq(tn * tn * L2, ad * ad)      \* t < EPSILON
        THEN NoHit
        ELSE IF FacingAway(origin, tri)                        \* facing_dot < 0
        THEN NoHit
        ELSE [hit |-> TRUE, tn |-> tn, td |-> ad]

----------------------------------------------------------------------------
(* Tracer *)

\* result.distance < distance - 1e-6, for distance = sqrt(L2)
HitBeforeTarget(r, L2) ==
    /\ r.td > r.tn
    /\ GtEpsSq((r.td - r.tn) * (r.td - r.tn) * L2, r.td * r.td)

is_path_clear(tris, g, cs, origin, target) ==
    LET direction  == subtract(target, origin)
        L2         == lengthSq(direction)
        candidates == get_triangles_along_ray(g, cs, origin, direction, L2)
    IN  IF LtEpsSq(L2, 1)                                      \* distance < 1e-6
        THEN TRUE
        ELSE ~ \E i \in candidates :
                  LET result == ray_triangle_intersection(origin, direction, tris[i])
                  IN  result.hit /\ HitBeforeTarget(result, L2)

\* closest_hit before any candidate is tested: RayHit(hit=False, ...)
NoClosestHit == [hit |-> FALSE, tn |-> 0, td |-> 1, point |-> <<Zero, Zero, Zero>>,
                 triangle |-> 0]

\* ray.get_point(t) for t = sqrt(L2) * tn / td along D / sqrt(L2)
get_point(origin, D, tn, td) == [i \in 1..3 |-> Rat(origin[i] * td + D[i] * tn, td)]

\* result.distance < closest_hit.distance, both along the same ray
closer(r1, r2) == r1.tn * r2.td < r2.tn * r1.td

\* Tracer.trace_ray(origin, D, max_distance = sqrt(maxSq)): every RayHit the
\* loop over the candidate set can end with.  The candidates are a Python
\* set, iterated in no fixed order, and a hit replaces closest_hit only when
\* strictly closer: among hits at the same smallest distance any one can be
\* the one returned.
trace_ray(tris, g, cs, origin, D, maxSq) ==
    LET candidates == get_triangles_along_ray(g, cs, origin, D, maxSq)
        result(i)  == ray_triangle_intersection(origin, D, tris[i])
        hits       == { i \in candidates : result(i).hit }
        closest    == { i \in hits : \A j \in hits : ~ closer(result(j), result(i)) }
    IN  IF hits = {}
        THEN { NoClosestHit }
        ELSE { [hit |-> TRUE, tn |-> result(i).tn, td |-> result(i).td,
                point |-> get_point(origin, D, result(i).tn, result(i).td),
                triangle |-> i] : i \in closest }

----------------------------------------------------------------------------
(* Light, LampProfile, LampProfileManager *)

Light(position, intensity, lamp_type, direction) ==
    [position |-> position, intensity |-> intensity,
     lamp_type |-> lamp_type, direction |-> direction]

\* the profile table the manager loads: lamp id -> forward intensity and
\* intensity samples by angle (degrees)
LampProfiles ==
    [ ushio_b1 |->
        [ forward_intensity |-> <<4, 1>>,
          intensity_samples |-> [ang \in {0, 30, 60, 90} |->
                                   CASE ang = 0  -> <<4, 1>>
                                     [] ang = 30 -> <<3, 1>>
                                     [] ang = 60 -> <<1, 1>>
                                     [] ang = 90 -> <<0, 1>>] ] ]

\* LampProfileManager.get_profile: the profile, or None
HasProfile(lamp_type) == lamp_type \in DOMAIN LampProfiles

SetMax(S) == CHOOSE x \in S : \A y \in S : y <= x

SetMin(S) == CHOOSE x \in S : \A y \in S : y >= x

\* LampProfile.get_intensity_at_angle
get_intensity_at_angle(profile, angle_degrees) ==
    LET samples == profile.intensity_samples
        ang     == Max2(0, Min2(90, angle_degrees))
        lowers  == { x \in DOMAIN samples : x <= ang }
        uppers  == { x \in DOMAIN samples : x >= ang }
    IN  IF ang \in DOMAIN samples THEN samples[ang]
        ELSE IF lowers = {} THEN samples[SetMin(DOMAIN samples)]
        ELSE IF uppers = {} THEN samples[SetMax(DOMAIN samples)]
        ELSE LET lower_angle == SetMax(lowers)
                 upper_angle == SetMin(uppers)
                 t == Rat(ang - lower_angle, upper_angle - lower_angle)
             IN  RatAdd(samples[lower_angle],
                        RatMul(t, RatSub(samples[upper_angle], samples[lower_angle])))

\* math.degrees(math.acos(c)) for c = cn / sqrt(L2), L2 > 0: exact where the
\* angle is a multiple of 15 degrees with rational cos^2, and a whole number
\* of degrees inside the bracket otherwise
acos_degrees(cn, L2) ==
    LET c2 == cn * cn
        acute == IF c2 = L2 THEN 0
                 ELSE IF 4 * c2 > 3 * L2 THEN 15
                 ELSE IF 4 * c2 = 3 * L2 THEN 30
                 ELSE IF 2 * c2 > L2 THEN 38
                 ELSE IF 2 * c2 = L2 THEN 45
                 ELSE IF 4 * c2 > L2 THEN 53
                 ELSE IF 4 * c2 = L2 THEN 60
                 ELSE IF c2 > 0 THEN 75
                 ELSE 90
    IN  IF cn >= 0 THEN acute ELSE 180 - acute

\* 4 * math.pi, with pi taken as 22/7
FourPi == <<88, 7>>

\* (mutant) a lamp of unknown type is given the ushio_b1 profile
intensity_multiplier_DefaultProfile(light, angle_deg) ==
    RatDiv(get_intensity_at_angle(LampProfiles["ushio_b1"], angle_deg),
           LampProfiles["ushio_b1"].forward_intensity)

\* intensity_at_angle / forward_intensity as the direct and the photon path
\* compute it (intensity.py 151-172, photon_tracing.py 261-276)
intensity_multiplier(light, angle_deg) ==
    LET intensity_at_angle ==
            IF HasProfile(light.lamp_type)
            THEN get_intensity_at_angle(LampProfiles[light.lamp_type], angle_deg)
            ELSE light.intensity
        forward_intensity ==
            IF HasProfile(light.lamp_type)
            THEN LampProfiles[light.lamp_type].forward_intensity
            ELSE light.intensity
    IN  IF RatLt(Zero, forward_intensity)
        THEN RatDiv(intensity_at_angle, forward_intensity)
        ELSE One

----------------------------------------------------------------------------
(* IntensityCalculator._calculate_direct_intensity *)

calculate_direct_intensity(tris, g, cs, point, light) ==
    LET direction == subtract(light.position, point)
        L2        == lengthSq(direction)
        to_point  == multiply(direction, -1)
        angle_deg == acos_degrees(dot(light.direction, to_point), L2)
    IN  IF LtEpsSq(L2, 1)
        THEN Zero
        ELSE IF ~ is_path_clear(tris, g, cs, point, light.position)
        THEN Zero
        ELSE RatDiv(RatMul(intensity_multiplier(light, angle_deg), light.intensity),
                    RatMul(FourPi, <<L2, 1>>))

----------------------------------------------------------------------------
(* PhotonTracer: one photon's first hit and one invocation of the bounce   *)
(* routine, as functions of the random draws (the ray hit that the sampled *)
(* direction leads to, the emission angle, the roulette outcomes).         *)
(* tri.albedo is read as the triangle's reflectivity: Triangle defines     *)
(* only `reflectivity`, and both names stand for the one attribute rho.    *)

\* PhotonTracingConfig defaults that IntensityCalculator leaves untouched
Epsilon == <<1, 1000000>>

RouletteThreshold == <<1, 100>>

\* rho < 0.1: the low-reflectivity roulette
LowAlbedo == <<1, 10>>

RatMax(p, q) == IF RatLt(p, q) THEN q ELSE p

\* int(x) for x >= 0
RatFloor(p) == p[1] \div p[2]

\* Vector3.length(): exact when the squared length is a perfect square,
\* otherwise rounded down to two decimals
length(v) ==
    LET n == lengthSq(v)
        r == CHOOSE k \in 0..n : k * k <= n /\ n < (k + 1) * (k + 1)
    IN  IF r * r = n
        THEN <<r, 1>>
        ELSE LET t == CHOOSE k \in (10 * r)..(10 * r + 9) :
                          k * k <= 100 * n /\ 100 * n < (k + 1) * (k + 1)
                 h == CHOOSE k \in (10 * t)..(10 * t + 9) :
                          k * k <= 10000 * n /\ 10000 * n < (k + 1) * (k + 1)
             IN  Rat(h, 100)

\* cell size of the SamplePointGrid built by trace_indirect_exposure
optimal_cell_size(R) == RatMax(<<1, 10>>, RatDiv(R, <<2, 1>>))

\* SamplePointGrid._position_to_cell
sample_position_to_cell(pos, cs) ==
    << RatFloor(RatDiv(<<pos[1], 1>>, cs)),
       RatFloor(RatDiv(<<pos[2], 1>>, cs)),
       RatFloor(RatDiv(<<pos[3], 1>>, cs)) >>

\* SamplePointGrid.get_nearby_point_indices: the indices (from 0) of the
\* points whose cell is within search_cells of the position's cell
get_nearby_point_indices(points, cs, pos, search_radius) ==
    LET center_cell  == sample_position_to_cell(pos, cs)
        search_cells == RatFloor(RatDiv(search_radius, cs)) + 1
    IN  { i \in 0..(Len(points) - 1) :
            LET c == sample_position_to_cell(points[i + 1], cs)
            IN  \A k \in 1..3 : Abs(c[k] - center_cell[k]) <= search_cells }

\* (mutant) only the cells next to the position's cell are searched
nearby_indices_AdjacentCells(points, cs, position, search_radius) ==
    LET center_cell  == sample_position_to_cell(position, cs)
        search_cells == 1
        w            == 2 * search_cells + 1      \* range(-search_cells, search_cells + 1)
        cell(n) == << center_cell[1] + (n \div (w * w)) - search_cells,
                      center_cell[2] + ((n \div w) % w) - search_cells,
                      center_cell[3] + (n % w) - search_cells >>
        point_cell == [i \in 1..Len(points) |-> sample_position_to_cell(points[i], cs)]
        \* step k: cell k \div len(points) of the loops, index k % len(points)
        steps == IF w <= 0 THEN <<>>
                 ELSE SelectSeq([k \in 1..(w * w * w * Len(points)) |-> k - 1],
                                LAMBDA k : point_cell[(k % Len(points)) + 1]
                                               = cell(k \div Len(points)))
    IN  [a \in 1..Len(steps) |-> steps[a] % Len(points)]

\* the list SamplePointGrid.get_nearby_point_indices builds: the dx, dy, dz
\* loops visit the cells around the position's cell in order, each cell of
\* the grid holds the indices (from 0) of the points in it in index order
\* (_build_grid), and the list is extended by the cell's list
nearby_indices(points, cs, position, search_radius) ==
    LET center_cell  == sample_position_to_cell(position, cs)
        search_cells == RatFloor(RatDiv(search_radius, cs)) + 1
        w            == 2 * search_cells + 1      \* range(-search_cells, search_cells + 1)
        cell(n) == << center_cell[1] + (n \div (w * w)) - search_cells,
                      center_cell[2] + ((n \div w) % w) - search_cells,
                      center_cell[3] + (n % w) - search_cells >>
        point_cell == [i \in 1..Len(points) |-> sample_position_to_cell(points[i], cs)]
        \* step k: cell k \div len(points) of the loops, index k % len(points)
        steps == IF w <= 0 THEN <<>>
                 ELSE SelectSeq([k \in 1..(w * w * w * Len(points)) |-> k - 1],
                                LAMBDA k : point_cell[(k % Len(points)) + 1]
                                               = cell(k \div Len(points)))
    IN  [a \in 1..Len(steps) |-> steps[a] % Len(points)]

\* weight = max(0, 1 - distance / kernel_radius)
kernel_weight(distance, R) == RatMax(Zero, RatSub(One, RatDiv(distance, R)))

\* (mutant) the deposit assigns instead of adding
accumulate_Overwrite(old, amount) == amount

\* indirect_exposure[i] += flux * weight
accumulate(old, amount) == RatAdd(old, amount)

\* the deposit loop of _trace_reflected_photon at hit_point
deposit_flux(exposure, points, hit_point, f, R) ==
    LET nearby == get_nearby_point_indices(points, optimal_cell_size(R), hit_point, R)
    IN  [ i \in DOMAIN exposure |->
            LET distance == length(subtract(hit_point, points[i + 1]))
            IN  IF i \in nearby /\ RatLt(distance, R)
                THEN accumulate(exposure[i], RatMul(f, kernel_weight(distance, R)))
                ELSE exposure[i] ]

\* (mutant) a surface that hands on more than it receives
albedo_AboveOne(tri) == RatAdd(tri.reflectivity, One)

\* rho = tri.albedo
albedo(tri) == tri.reflectivity

\* a RayHit: trace_ray found nothing, or the closest hit and its triangle
NoRayHit == [hit |-> FALSE, point |-> <<0, 0, 0>>, triangle |-> 0]

\* the points of a triangle a ray is taken to hit: two of its vertices
SurfacePoints(tri) == {tri.v0, tri.v1}

\* what trace_ray can return for a ray in a randomly sampled direction
TraceRayOutcomes(tris) ==
    {NoRayHit} \cup
    UNION { { [hit |-> TRUE, point |-> q, triangle |-> k] : q \in SurfacePoints(tris[k]) }
            : k \in 1..Len(tris) }

\* (mutant) the first hit deposits like every later hit
exposure_after_first_hit_Deposits(exposure, points, hit_point, f, R) ==
    deposit_flux(exposure, points, hit_point, f, R)

\* _trace_photon_from_light leaves indirect_exposure as it is
exposure_after_first_hit(exposure, points, hit_point, f, R) == exposure

\* the bounce number _trace_photon_from_light hands to _trace_reflected_photon
FirstBounce == 1

\* _trace_photon_from_light, up to the call of _trace_reflected_photon:
\* whether the photon goes on, and with what flux
trace_photon_from_light(tris, light, f, hit, angle_deg) ==
    LET stop == [continue |-> FALSE, flux |-> f]
    IN  IF ~ hit.hit THEN stop
        ELSE LET angle_adjusted_flux == RatMul(f, intensity_multiplier(light, angle_deg))
                 rho            == albedo(tris[hit.triangle])
                 reflected_flux == RatMul(angle_adjusted_flux, rho)
             IN  IF RatLt(reflected_flux, Epsilon) THEN stop
                 ELSE [continue |-> TRUE, flux |-> reflected_flux]

\* (mutant) the bounce bound lets one more bounce through
ExceededMaxBounces_OneMore(b, B) == b > B + 1

\* bounce > self.config.max_bounces
ExceededMaxBounces(b, B) == b > B

\* (mutant) a survivor of the flux roulette keeps the flux it entered with
trace_reflected_photon_NoRescale(tris, points, R, B, exposure, f, b, hit, survives, survives_low) ==
    LET stop == [continue |-> FALSE, exposure |-> exposure, flux |-> f, bounce |-> b,
                 cast |-> FALSE, deposit |-> FALSE]
        roulette == RatLt(f, RouletteThreshold)
    IN  IF ExceededMaxBounces(b, B) THEN stop
        ELSE IF roulette /\ ~ survives THEN stop
        ELSE LET f1 == f
             IN  IF RatLt(f1, Epsilon) THEN stop
                 ELSE IF ~ hit.hit THEN [stop EXCEPT !.cast = TRUE]
                 ELSE LET deposited == deposit_flux(exposure, points, hit.point, f1, R)
                          rho       == albedo(tris[hit.triangle])
                          new_flux  == RatMul(f1, rho)
                          absorbed  == [continue |-> FALSE, exposure |-> deposited,
                                        flux |-> f1, bounce |-> b,
                                        cast |-> TRUE, deposit |-> TRUE]
                      IN  IF RatLt(new_flux, Epsilon) THEN absorbed
                          ELSE IF RatLt(rho, LowAlbedo) /\ ~ survives_low THEN absorbed
                          ELSE [continue |-> TRUE, exposure |-> deposited,
                                flux |-> IF RatLt(rho, LowAlbedo)
                                         THEN RatDiv(new_flux, rho)
                                         ELSE new_flux,
                                bounce |-> b + 1,
                                cast |-> TRUE, deposit |-> TRUE]

\* one invocation of _trace_reflected_photon(origin, direction, flux, bounce),
\* up to its return or its recursive call: the deposition map after it, whether
\* it cast a ray and ran the deposit loop, and the flux and bounce it recurses
\* with (continue) or that it returns (~continue)
trace_reflected_photon(tris, points, R, B, exposure, f, b, hit, survives, survives_low) ==
    LET stop == [continue |-> FALSE, exposure |-> exposure, flux |-> f, bounce |-> b,
                 cast |-> FALSE, deposit |-> FALSE]
        roulette == RatLt(f, RouletteThreshold)
    IN  IF ExceededMaxBounces(b, B) THEN stop
        ELSE IF roulette /\ ~ survives THEN stop
        ELSE LET f1 == IF roulette
                       THEN RatDiv(f, RatDiv(f, RouletteThreshold))
                       ELSE f
             IN  IF RatLt(f1, Epsilon) THEN stop
                 ELSE IF ~ hit.hit THEN [stop EXCEPT !.cast = TRUE]
                 ELSE LET deposited == deposit_flux(exposure, points, hit.point, f1, R)
                          rho       == albedo(tris[hit.triangle])
                          new_flux  == RatMul(f1, rho)
                          absorbed  == [continue |-> FALSE, exposure |-> deposited,
                                        flux |-> f1, bounce |-> b,
                                        cast |-> TRUE, deposit |-> TRUE]
                      IN  IF RatLt(new_flux, Epsilon) THEN absorbed
                          ELSE IF RatLt(rho, LowAlbedo) /\ ~ survives_low THEN absorbed
                          ELSE [continue |-> TRUE, exposure |-> deposited,
                                flux |-> IF RatLt(rho, LowAlbedo)
                                         THEN RatDiv(new_flux, rho)
                                         ELSE new_flux,
                                bounce |-> b + 1,
                                cast |-> TRUE, deposit |-> TRUE]

----------------------------------------------------------------------------
(* The geometry scenarios: a mesh, its grid, and queries on the Tracer *)

\* SpatialGrid cell size used in the scenarios (IntensityConfig.grid_cell_size)
GridCellSize == 2

Rev(tri) == Triangle(tri.v0, tri.v2, tri.v1, tri.reflectivity)

\* a wall in the plane x = 2 (normal +x), the same wall with a free edge on
\* the cell boundary z = 2, a slanted panel and a floor panel
WallX == Triangle(<<2, 0, 0>>, <<2, 4, 0>>, <<2, 0, 4>>, <<1, 2>>)

EdgeWall == Triangle(<<2, 0, 2>>, <<2, 2, 2>>, <<2, 0, 4>>, <<1, 2>>)

Slanted == Triangle(<<0, 0, 0>>, <<4, 0, 4>>, <<0, 4, 0>>, <<1, 2>>)

Floor == Triangle(<<0, 0, 0>>, <<0, 0, 4>>, <<4, 0, 0>>, <<1, 2>>)

Meshes ==
    { <<>>,
      <<WallX>>,
      <<Rev(WallX)>>,
      <<WallX, Rev(WallX)>>,
      <<EdgeWall, Rev(EdgeWall)>>,
      <<Slanted, Rev(Slanted)>>,
      <<Floor, WallX>> }

\* the points queries are made from and to
QueryPoints == { <<x, y, z>> : x \in 0..MaxCoord, y \in 0..1, z \in 0..MaxCoord }

\* the lamps of the geometry scenarios: anywhere, pointing down (the
\* default direction)
GeomLights == { Light(pos, <<4, 1>>, "ushio_b1", <<0, -1, 0>>) : pos \in QueryPoints }

NoLight == Light(<<0, 0, 0>>, Zero, "none", <<0, -1, 0>>)

NoQuery == [op |-> "none", a |-> <<0, 0, 0>>, b |-> <<0, 0, 0>>, light |-> NoLight,
            clear |-> TRUE, value |-> Zero]

\* kernel radius used in the scenarios (IntensityConfig.kernel_radius)
KernelRadius == <<2, 1>>

\* no photon trace has been started
PhotonIdle ==
    /\ pc = "idle"
    /\ sample_points = <<>>
    /\ lights = <<>>
    /\ light_idx = 0
    /\ photon_idx = 0
    /\ photon_flux = Zero
    /\ photon_bounce = 0
    /\ photon_origin = "lamp"
    /\ indirect_exposure = <<>>
    /\ ray_casts = 0
    /\ deposit_hits = 0
    /\ depth = 0

\* Optional values: None, or Some(x)
None == <<>>

Some(x) == <<x>>

\* a call on the calculator: its arguments and results, whether it invoked
\* trace_indirect_exposure, the (points, lights) of the trace its indirect
\* values come from (source), what the cache held when it started
\* (source_before), and the call made before it (previous)
NoPrevious == [op |-> "none", points |-> <<>>, lights |-> <<>>, traced |-> FALSE]

NoCall == [op |-> "none", points |-> <<>>, lights |-> <<>>, results |-> <<>>,
           traced |-> FALSE, source |-> None, source_before |-> None,
           traces_before |-> 0, previous |-> NoPrevious]

Previous(call) == [op |-> call.op, points |-> call.points, lights |-> call.lights,
                   traced |-> call.traced]

\* IntensityCalculator.__init__: no cache, and no call made yet
CalcIdle ==
    /\ photon_cache = None
    /\ cached_lights = None
    /\ last_call = NoCall
    /\ calls = 0
    /\ trace_count = 0
    /\ cache_source = None

\* no measurement points have been generated
NoSample == [op |-> "none"]

SamplerIdle ==
    /\ rng = 0
    /\ sample_call = NoSample

InitGeom ==
    /\ triangles \in Meshes
    /\ cell_size = GridCellSize
    /\ grid = build_grid(triangles, cell_size)
    /\ query = NoQuery
    /\ max_bounces = 0
    /\ photons_per_light = 1
    /\ kernel_radius = KernelRadius
    /\ PhotonIdle
    /\ CalcIdle
    /\ SamplerIdle
    /\ survival_call = None

\* Tracer.is_path_clear(a, b)
IsPathClearCall ==
    \E a \in QueryPoints, b \in QueryPoints :
        /\ query = NoQuery
        /\ query' = [op |-> "is_path_clear", a |-> a, b |-> b, light |-> NoLight,
                     clear |-> is_path_clear(triangles, grid, cell_size, a, b),
                     value |-> Zero]
        /\ UNCHANGED <<triangles, cell_size, grid, configVars, photonVars, calcVars, samplerVars, survival_call>>

\* IntensityCalculator._calculate_direct_intensity(point, light)
DirectIntensityCall ==
    \E p \in QueryPoints, light \in GeomLights :
        /\ query = NoQuery
        /\ query' = [op |-> "direct", a |-> p, b |-> light.position, light |-> light,
                     clear |-> TRUE,
                     value |-> calculate_direct_intensity(triangles, grid, cell_size,
                                                          p, light)]
        /\ UNCHANGED <<triangles, cell_size, grid, configVars, photonVars, calcVars, samplerVars, survival_call>>

\* the caller drops the result
QueryReturn ==
    /\ query # NoQuery
    /\ query' = NoQuery
    /\ UNCHANGED <<triangles, cell_size, grid, configVars, photonVars, calcVars, samplerVars, survival_call>>

NextGeom == IsPathClearCall \/ DirectIntensityCall \/ QueryReturn

vars == <<geomVars, configVars, photonVars, calcVars, samplerVars, survival_call>>

SpecGeom == InitGeom /\ [][NextGeom]_vars

\* max_distance of a trace_ray query, in lengths of the direction vector
MaxDistanceFactors == {1, 2}

\* Tracer.trace_ray(a, b - a, max_distance); visited is the local set of
\* cells get_triangles_along_ray went through for this ray
TraceRayCall ==
    \E a \in QueryPoints, b \in QueryPoints, m \in MaxDistanceFactors :
        LET D     == subtract(b, a)
            maxSq == m * m * lengthSq(D)
        IN  /\ query = NoQuery
            /\ a # b
            /\ \E hit \in trace_ray(triangles, grid, cell_size, a, D, maxSq) :
                   query' = [op |-> "trace_ray", origin |-> a, direction |-> D,
                             max_factor |-> m, hit |-> hit,
                             visited |-> VisitedCells(cell_size, a, D, maxSq),
                             candidates |-> get_triangles_along_ray(grid, cell_size,
                                                                    a, D, maxSq)]
            /\ UNCHANGED <<triangles, cell_size, grid, configVars, photonVars, calcVars, samplerVars, survival_call>>

NextRay == TraceRayCall \/ QueryReturn

SpecRay == InitGeom /\ [][NextRay]_vars

\* _calculate_direct_intensity(point, light) for lamps whose type has no
\* profile: of negative, zero and positive intensity, above the mesh
DirectIntensityUnknownLamp ==
    \E p \in QueryPoints,
       pos \in { <<0, 1, 0>>, <<1, 2, 3>>, <<4, 1, 2>>, <<3, 3, 3>> },
       intensity \in { <<-1, 1>>, Zero, <<4, 1>>, <<1000, 1>> } :
        LET light == Light(pos, intensity, "custom", <<0, -1, 0>>)
        IN  /\ query = NoQuery
            /\ query' = [op |-> "direct", a |-> p, b |-> light.position, light |-> light,
                         clear |-> is_path_clear(triangles, grid, cell_size, p, pos),
                         value |-> calculate_direct_intensity(triangles, grid, cell_size,
                                                              p, light)]
            /\ UNCHANGED <<triangles, cell_size, grid, configVars, photonVars,
                           calcVars, samplerVars, survival_call>>

SpecLamp == InitGeom /\ [][DirectIntensityUnknownLamp \/ QueryReturn]_vars

----------------------------------------------------------------------------
(* The photon tracer, step by step: trace_indirect_exposure's photon loop, *)
(* _trace_photon_from_light and each invocation of _trace_reflected_photon *)

\* max_bounces ranges over 0..MaxBounces
MaxBounces == 2

\* the values of photons_per_light
PhotonCounts == {1, 2}

WithRho(tri, rho) == Triangle(tri.v0, tri.v1, tri.v2, rho)

\* reflectivities: absorbing, below the low-reflectivity roulette's 0.1,
\* the default 0.5, and perfectly reflecting
Albedos == { Zero, <<1, 20>>, <<1, 2>>, One }

\* a floor panel of each reflectivity, and a floor with a mirror-like wall
PhotonMeshes ==
    { <<WithRho(Floor, rho)>> : rho \in Albedos } \cup { <<Floor, WithRho(WallX, One)>> }

\* measurement point lists
SamplePointLists ==
    { << <<0, 0, 0>> >>,
      << <<1, 0, 0>>, <<3, 0, 0>> >> }

\* a lamp at its profile's forward intensity, a dim lamp whose photons fall
\* under the roulette threshold, and a lamp of unknown type with a negative
\* intensity
LampA == Light(<<1, 2, 1>>, <<4, 1>>, "ushio_b1", <<0, -1, 0>>)

LampDim == Light(<<3, 2, 1>>, <<1, 50>>, "ushio_b1", <<0, -1, 0>>)

LampNeg == Light(<<1, 2, 3>>, <<-1, 1>>, "custom", <<0, -1, 0>>)

LightLists == { <<LampA>>, <<LampDim>>, <<LampNeg, LampA>> }

\* angle between the lamp's direction and the direction sample_biased_cone
\* returns (within 90 degrees): on a sample, between two samples, at the rim
EmissionAngles == {0, 45, 90}

InitPhoton ==
    /\ triangles \in PhotonMeshes
    /\ cell_size = GridCellSize
    /\ grid = build_grid(triangles, cell_size)
    /\ query = NoQuery
    /\ max_bounces \in 0..MaxBounces
    /\ photons_per_light \in PhotonCounts
    /\ kernel_radius = KernelRadius
    /\ PhotonIdle
    /\ CalcIdle
    /\ SamplerIdle
    /\ survival_call = None

\* the photon in flight is finished: back to the photon loop, at the next
\* photon of this light or the first photon of the next light
NextPhotonIdx == IF photon_idx + 1 < photons_per_light THEN photon_idx + 1 ELSE 0

NextLightIdx == IF photon_idx + 1 < photons_per_light THEN light_idx ELSE light_idx + 1

\* trace_indirect_exposure(sample_points, lights), up to the photon loop
TraceIndirectExposureCall ==
    \E points \in SamplePointLists, ls \in LightLists :
        /\ pc = "idle"
        /\ pc' = "emit"
        /\ sample_points' = points
        /\ lights' = ls
        /\ indirect_exposure' = [i \in 0..(Len(points) - 1) |-> Zero]
        /\ light_idx' = 0
        /\ photon_idx' = 0
        /\ UNCHANGED <<photon_flux, photon_bounce, photon_origin,
                       ray_casts, deposit_hits, depth>>
        /\ UNCHANGED <<geomVars, configVars, calcVars, samplerVars, survival_call>>

\* the photon loop emits the next photon of the current light
EmitPhoton ==
    /\ pc = "emit"
    /\ light_idx < Len(lights)
    /\ pc' = "from_light"
    /\ photon_flux' = RatDiv(lights[light_idx + 1].intensity, <<photons_per_light, 1>>)
    /\ photon_bounce' = 0
    /\ photon_origin' = "lamp"
    /\ ray_casts' = 0
    /\ deposit_hits' = 0
    /\ depth' = 0
    /\ UNCHANGED <<sample_points, lights, light_idx, photon_idx, indirect_exposure>>
    /\ UNCHANGED <<geomVars, configVars, calcVars, samplerVars, survival_call>>

\* _trace_photon_from_light(light.position, initial_direction, power_per_photon, ...)
TracePhotonFromLight ==
    \E hit \in TraceRayOutcomes(triangles), angle_deg \in EmissionAngles :
        LET r == trace_photon_from_light(triangles, lights[light_idx + 1],
                                         photon_flux, hit, angle_deg)
        IN  /\ pc = "from_light"
            /\ ray_casts' = ray_casts + 1
            /\ indirect_exposure' =
                   IF hit.hit
                   THEN exposure_after_first_hit(indirect_exposure, sample_points,
                                                 hit.point, photon_flux, kernel_radius)
                   ELSE indirect_exposure
            /\ photon_flux' = r.flux
            /\ IF r.continue
               THEN /\ pc' = "reflected"
                    /\ photon_bounce' = FirstBounce
                    /\ photon_origin' = "surface"
                    /\ depth' = 1
                    /\ UNCHANGED <<light_idx, photon_idx>>
               ELSE /\ pc' = "emit"
                    /\ light_idx' = NextLightIdx
                    /\ photon_idx' = NextPhotonIdx
                    /\ UNCHANGED <<photon_bounce, photon_origin, depth>>
            /\ UNCHANGED <<sample_points, lights, deposit_hits>>
            /\ UNCHANGED <<geomVars, configVars, calcVars, samplerVars, survival_call>>

\* one invocation of _trace_reflected_photon(origin, direction, flux, bounce, ...)
TraceReflectedPhoton ==
    \E hit \in TraceRayOutcomes(triangles), survives \in BOOLEAN, survives_low \in BOOLEAN :
        LET r == trace_reflected_photon(triangles, sample_points, kernel_radius,
                                        max_bounces, indirect_exposure, photon_flux,
                                        photon_bounce, hit, survives, survives_low)
        IN  /\ pc = "reflected"
            /\ indirect_exposure' = r.exposure
            /\ photon_flux' = r.flux
            /\ photon_bounce' = r.bounce
            /\ ray_casts' = IF r.cast THEN ray_casts + 1 ELSE ray_casts
            /\ deposit_hits' = IF r.deposit THEN deposit_hits + 1 ELSE deposit_hits
            /\ IF r.continue
               THEN /\ pc' = "reflected"
                    /\ depth' = depth + 1
                    /\ UNCHANGED <<light_idx, photon_idx>>
               ELSE /\ pc' = "emit"
                    /\ light_idx' = NextLightIdx
                    /\ photon_idx' = NextPhotonIdx
                    /\ UNCHANGED depth
            /\ UNCHANGED <<sample_points, lights, photon_origin>>
            /\ UNCHANGED <<geomVars, configVars, calcVars, samplerVars, survival_call>>

\* every photon of every light is traced: trace_indirect_exposure returns
\* indirect_exposure
TraceIndirectExposureReturn ==
    /\ pc = "emit"
    /\ light_idx >= Len(lights)
    /\ pc' = "done"
    /\ UNCHANGED <<sample_points, lights, light_idx, photon_idx, photon_flux,
                   photon_bounce, photon_origin, indirect_exposure,
                   ray_casts, deposit_hits, depth>>
    /\ UNCHANGED <<geomVars, configVars, calcVars, samplerVars, survival_call>>

NextPhoton ==
    \/ TraceIndirectExposureCall
    \/ EmitPhoton
    \/ TracePhotonFromLight
    \/ TraceReflectedPhoton
    \/ TraceIndirectExposureReturn

SpecPhoton == InitPhoton /\ [][NextPhoton]_vars

\* the tracer is a sequential loop: while a step is possible it is taken
SpecPhotonFair == SpecPhoton /\ WF_vars(NextPhoton)

----------------------------------------------------------------------------
(* trace_indirect_exposure as one call: every deposition map it can return, *)
(* over all hits, emission angles and roulette outcomes                     *)

RECURSIVE ReflectedResults(_, _, _, _, _, _, _)
\* the maps one photon can leave, from an invocation of _trace_reflected_photon on
ReflectedResults(tris, points, R, B, exposure, f, b) ==
    IF ExceededMaxBounces(b, B) THEN {exposure}
    ELSE
    UNION { LET r == trace_reflected_photon(tris, points, R, B, exposure, f, b,
                                            c[1], c[2], c[3])
            IN  IF r.continue
                THEN ReflectedResults(tris, points, R, B, r.exposure, r.flux, r.bounce)
                ELSE {r.exposure}
            : c \in TraceRayOutcomes(tris) \X BOOLEAN \X BOOLEAN }

\* the maps one photon of a light can leave
PhotonResults(tris, points, R, B, exposure, light, f) ==
    UNION { LET r == trace_photon_from_light(tris, light, f, c[1], c[2])
                e == IF c[1].hit
                     THEN exposure_after_first_hit(exposure, points, c[1].point, f, R)
                     ELSE exposure
            IN  IF r.continue
                THEN ReflectedResults(tris, points, R, B, e, r.flux, FirstBounce)
                ELSE {e}
            : c \in TraceRayOutcomes(tris) \X EmissionAngles }

RECURSIVE PhotonLoopResults(_, _, _, _, _, _, _, _, _)
\* the photon loop from photon p_idx of light l_idx on, started on any of the
\* maps in exposures
PhotonLoopResults(tris, points, R, B, N, ls, exposures, l_idx, p_idx) ==
    IF l_idx >= Len(ls) THEN exposures
    ELSE IF N <= 0                               \* range(photons_per_light) is empty
    THEN PhotonLoopResults(tris, points, R, B, N, ls, exposures, l_idx + 1, 0)
    ELSE LET light == ls[l_idx + 1]
             power_per_photon == RatDiv(light.intensity, <<N, 1>>)
             after == UNION { PhotonResults(tris, points, R, B, e, light, power_per_photon)
                              : e \in exposures }
         IN  IF p_idx + 1 < N
             THEN PhotonLoopResults(tris, points, R, B, N, ls, after, l_idx, p_idx + 1)
             ELSE PhotonLoopResults(tris, points, R, B, N, ls, after, l_idx + 1, 0)

\* power_per_photon = light.intensity / photons_per_light raises
\* ZeroDivisionError at the first light
power_per_photon_raises(ls, N) == Len(ls) > 0 /\ N = 0

\* PhotonTracer.trace_indirect_exposure(sample_points, lights), when it returns
trace_indirect_exposure(tris, points, ls, B, N, R) ==
    PhotonLoopResults(tris, points, R, B, N, ls,
                      { [i \in 0..(Len(points) - 1) |-> Zero] }, 0, 0)

----------------------------------------------------------------------------
(* SamplePointClusterer and trace_indirect_exposure with clustering.  The   *)
(* point lists of the scenarios have clusters whose means are lattice       *)
(* points, so that the centers can be deposited against like points.        *)

RECURSIVE cluster_points_NoUsedCheck(_, _, _, _, _)
\* (mutant) points already in a cluster are taken again
cluster_points_NoUsedCheck(points, clustering_distance, i, used, acc) ==
    IF i >= Len(points) THEN acc
    ELSE IF i \in used THEN cluster_points_NoUsedCheck(points, clustering_distance, i + 1, used, acc)
    ELSE LET near == { j \in (i + 1)..(Len(points) - 1) :
                         /\ TRUE
                         /\ RatLt(length(subtract(points[i + 1], points[j + 1])),
                                  clustering_distance) }
             cluster == <<i>> \o SelectSeq([k \in 1..Len(points) |-> k - 1],
                                           LAMBDA j : j \in near)
             sum[k \in 0..Len(cluster)] ==
                 IF k = 0 THEN <<0, 0, 0>> ELSE add(sum[k - 1], points[cluster[k] + 1])
             \* center.multiply(1.0 / len(cluster))
             center == [a \in 1..3 |-> sum[Len(cluster)][a] \div Len(cluster)]
         IN  cluster_points_NoUsedCheck(points, clustering_distance, i + 1, used \cup {i} \cup near,
                            [clusters        |-> Append(acc.clusters, cluster),
                             cluster_centers |-> Append(acc.cluster_centers, center)])

RECURSIVE cluster_points(_, _, _, _, _)
\* SamplePointClusterer._cluster_points from point i on (indices from 0):
\* the clusters (lists of indices) and their centers, given those made so far
cluster_points(points, clustering_distance, i, used, acc) ==
    IF i >= Len(points) THEN acc
    ELSE IF i \in used THEN cluster_points(points, clustering_distance, i + 1, used, acc)
    ELSE LET near == { j \in (i + 1)..(Len(points) - 1) :
                         /\ j \notin used
                         /\ RatLt(length(subtract(points[i + 1], points[j + 1])),
                                  clustering_distance) }
             cluster == <<i>> \o SelectSeq([k \in 1..Len(points) |-> k - 1],
                                           LAMBDA j : j \in near)
             sum[k \in 0..Len(cluster)] ==
                 IF k = 0 THEN <<0, 0, 0>> ELSE add(sum[k - 1], points[cluster[k] + 1])
             \* center.multiply(1.0 / len(cluster))
             center == [a \in 1..3 |-> sum[Len(cluster)][a] \div Len(cluster)]
         IN  cluster_points(points, clustering_distance, i + 1, used \cup {i} \cup near,
                            [clusters        |-> Append(acc.clusters, cluster),
                             cluster_centers |-> Append(acc.cluster_centers, center)])

\* trace_indirect_exposure(points, ls) on a tracer configured with a positive
\* clustering_distance, from call to return: the photons are traced against
\* the cluster centers, and each cluster's exposure is written to its members
TraceClusteredRun ==
    /\ pc = "idle"
    /\ \E points \in { << <<1, 0, 0>>, <<3, 0, 0>> >>,
                       << <<0, 0, 0>>, <<4, 0, 0>>, <<2, 0, 0>> >> },
          clustering_distance \in { One, <<3, 1>> },
          ls \in LightLists :
         \E c \in { cluster_points(points, clustering_distance, 0, {},
                                   [clusters |-> <<>>, cluster_centers |-> <<>>]) } :
           \E clustered_exposure \in
                  trace_indirect_exposure(triangles, c.cluster_centers, ls, max_bounces,
                                          photons_per_light, kernel_radius) :
               /\ sample_points' = points
               /\ lights' = ls
               /\ pc' = "done"
               /\ indirect_exposure' =
                      [i \in 0..(Len(points) - 1) |->
                          \* the last cluster that lists i writes its value
                          LET listing == { k \in 1..Len(c.clusters) :
                                             \E m \in 1..Len(c.clusters[k]) :
                                                 c.clusters[k][m] = i }
                              cluster_idx == CHOOSE k \in listing : \A l \in listing : l <= k
                          IN  IF listing = {} THEN Zero
                              ELSE clustered_exposure[cluster_idx - 1]]
               /\ query' = [op |-> "clusters",
                            clustering_distance |-> clustering_distance,
                            clusters |-> c.clusters,
                            cluster_centers |-> c.cluster_centers,
                            clustered_exposure |-> clustered_exposure]
               /\ UNCHANGED <<light_idx, photon_idx, photon_flux, photon_bounce,
                              photon_origin, ray_casts, deposit_hits, depth>>
               /\ UNCHANGED <<triangles, cell_size, grid, configVars, calcVars,
                              samplerVars, survival_call>>

\* PhotonTracingConfig(max_bounces = 1 (the default), clustering_distance > 0)
InitCluster == InitPhoton /\ max_bounces = 1

SpecCluster == InitCluster /\ [][TraceClusteredRun]_vars

----------------------------------------------------------------------------
(* Two runs of trace_indirect_exposure from the same seed that differ in    *)
(* photons_per_light only.  The seed fixes the stream of draws; a photon    *)
(* that takes the same branches in both runs consumes the same draws and    *)
(* so gets the same directions, hence the same hits.                        *)

\* PhotonTracingConfig(max_bounces = 1, photons_per_light = 1)
InitSeeded == InitPhoton /\ max_bounces = 1 /\ photons_per_light = 1

\* trace_indirect_exposure(points, <<light>>) with photons_per_light P and
\* with P + 1, the random source seeded alike before each: seed_script[k]
\* is what the draws give photon k (emission angle, first hit, hit of the
\* bounce ray).  The runs are compared when photon 1..P take the same
\* branches in both: stopped at the first hit in both, or bounced with a flux
\* at or above the roulette threshold in both (no roulette draw is taken).
TraceSeededRuns ==
    /\ pc = "idle"
    /\ \E points \in SamplePointLists, light \in {LampA, LampDim} :
       \E seed_script \in [ 1..(photons_per_light + 1) ->
                               [ angle_deg : EmissionAngles,
                                 first : TraceRayOutcomes(triangles),
                                 bounce : TraceRayOutcomes(triangles) ] ] :
         LET first_hit(k, N) ==
                 trace_photon_from_light(triangles, light,
                                         RatDiv(light.intensity, <<N, 1>>),
                                         seed_script[k].first, seed_script[k].angle_deg)
             after_photon(exposure, k, N) ==
                 IF first_hit(k, N).continue
                 THEN trace_reflected_photon(triangles, points, kernel_radius, max_bounces,
                                             exposure, first_hit(k, N).flux, FirstBounce,
                                             seed_script[k].bounce, TRUE, TRUE).exposure
                 ELSE exposure
             run[k \in 0..(photons_per_light + 1)] ==
                 [N \in {photons_per_light, photons_per_light + 1} |->
                     IF k = 0 THEN [i \in 0..(Len(points) - 1) |-> Zero]
                     ELSE after_photon(run[k - 1][N], k, N)]
             total(exposure) ==
                 LET upto[i \in 0..Len(points)] ==
                         IF i = 0 THEN Zero ELSE RatAdd(upto[i - 1], exposure[i - 1])
                 IN  upto[Len(points)]
             same_branches(k) ==
                 LET f1 == first_hit(k, photons_per_light)
                     f2 == first_hit(k, photons_per_light + 1)
                 IN  \/ (~ f1.continue /\ ~ f2.continue)
                     \/ /\ f1.continue /\ ~ RatLt(f1.flux, RouletteThreshold)
                        /\ f2.continue /\ ~ RatLt(f2.flux, RouletteThreshold)
         IN  /\ \A k \in 1..photons_per_light : same_branches(k)
             /\ \E result \in { [P1 |-> run[photons_per_light][photons_per_light],
                                  P2_before_last |->
                                      run[photons_per_light][photons_per_light + 1],
                                  P2 |-> run[photons_per_light + 1][photons_per_light + 1]] } :
                  /\ indirect_exposure' = result.P2
                  /\ query' = [op |-> "seeded",
                               seed_script |-> seed_script,
                               sum_P1 |-> total(result.P1),
                               sum_P2_before_last |-> total(result.P2_before_last),
                               sum_P2 |-> total(result.P2)]
             /\ sample_points' = points
             /\ lights' = <<light>>
             /\ pc' = "done"
             /\ UNCHANGED <<light_idx, photon_idx, photon_flux, photon_bounce,
                            photon_origin, ray_casts, deposit_hits, depth>>
             /\ UNCHANGED <<triangles, cell_size, grid, configVars, calcVars,
                            samplerVars, survival_call>>

SpecSeeded == InitSeeded /\ [][TraceSeededRuns]_vars

----------------------------------------------------------------------------
(* IntensityCalculator *)

\* calls made on one calculator
MaxCalls == 3

\* (mutant) the total leaves the indirect part out
total_intensity_DirectOnly(direct, indirect) == direct

\* total_intensity = direct_intensity + indirect_intensity
total_intensity(direct, indirect) == RatAdd(direct, indirect)

IntensityResult(direct, indirect) ==
    [direct_intensity |-> direct, indirect_intensity |-> indirect,
     total_intensity |-> total_intensity(direct, indirect)]

RECURSIVE direct_intensity_sum(_, _, _, _, _, _)
\* direct_intensity = 0; for light in lights: direct_intensity += ... (from
\* the k-th light on)
direct_intensity_sum(tris, g, cs, point, ls, k) ==
    IF k > Len(ls) THEN Zero
    ELSE RatAdd(calculate_direct_intensity(tris, g, cs, point, ls[k]),
                direct_intensity_sum(tris, g, cs, point, ls, k + 1))

\* dict.get(i, 0.0)
cache_get(cache, i) == IF i \in DOMAIN cache THEN cache[i] ELSE Zero

\* (mutant) a trace is made only while nothing is cached
lights_changed_OnlyWhenEmpty(cached, ls) == cached = None

\* (mutant) the cached lights never match
lights_changed_Always(cached, ls) == TRUE

\* self._cached_lights != lights
lights_changed(cached, ls) == cached # Some(ls)

\* the calculator's scenes, the values of max_bounces, the light lists and
\* the points of single-point calls
CalcMeshes == { <<Floor>>, <<WithRho(WallX, One)>> }

CalcBounces == {0, 1}

CalcLightLists == { <<LampA>>, <<LampNeg, LampA>> }

SinglePoints == { <<0, 0, 0>>, <<1, 0, 0>> }

InitCalc ==
    /\ triangles \in CalcMeshes
    /\ cell_size = GridCellSize
    /\ grid = build_grid(triangles, cell_size)
    /\ query = NoQuery
    /\ max_bounces \in CalcBounces
    /\ photons_per_light = 1
    /\ kernel_radius = KernelRadius
    /\ PhotonIdle
    /\ CalcIdle
    /\ SamplerIdle
    /\ survival_call = None

\* IntensityCalculator.calculate_intensity_batch(points, lights)
CalculateIntensityBatch ==
    \E points \in SamplePointLists, ls \in CalcLightLists :
        LET enabled == max_bounces > 0
            retrace == enabled /\ lights_changed(cached_lights, ls)
        IN  \E traced \in ( IF retrace
                            THEN trace_indirect_exposure(triangles, points, ls, max_bounces,
                                                         photons_per_light, kernel_radius)
                            ELSE {<<>>} ) :
                LET cache  == IF retrace THEN Some(traced) ELSE photon_cache
                    source == IF retrace
                              THEN Some([points |-> points, lights |-> ls])
                              ELSE cache_source
                    filled == enabled /\ cache # None
                IN  /\ calls < MaxCalls
                    /\ calls' = calls + 1
                    /\ photon_cache' = cache
                    /\ cached_lights' = IF retrace THEN Some(ls) ELSE cached_lights
                    /\ cache_source' = source
                    /\ trace_count' = IF retrace THEN trace_count + 1 ELSE trace_count
                    /\ last_call' =
                           [op |-> "batch", points |-> points, lights |-> ls,
                            results |->
                                [i \in 1..Len(points) |->
                                    IntensityResult(
                                        direct_intensity_sum(triangles, grid, cell_size,
                                                             points[i], ls, 1),
                                        IF filled THEN cache_get(cache[1], i - 1) ELSE Zero)],
                            traced |-> retrace,
                            source |-> IF filled THEN source ELSE None,
                            source_before |-> cache_source,
                            traces_before |-> trace_count,
                            previous |-> Previous(last_call)]
                    /\ UNCHANGED <<geomVars, configVars, photonVars, samplerVars, survival_call>>

\* IntensityCalculator.calculate_intensity(point, lights)
CalculateIntensity ==
    \E point \in SinglePoints, ls \in CalcLightLists :
        LET enabled  == max_bounces > 0
            fallback == enabled /\ photon_cache = None
        IN  \E traced \in ( IF fallback
                            THEN trace_indirect_exposure(triangles, <<point>>, ls, max_bounces,
                                                         photons_per_light, kernel_radius)
                            ELSE {<<>>} ) :
                /\ calls < MaxCalls
                /\ calls' = calls + 1
                /\ trace_count' = IF fallback THEN trace_count + 1 ELSE trace_count
                /\ last_call' =
                       [op |-> "single", points |-> <<point>>, lights |-> ls,
                        results |->
                            << IntensityResult(
                                   direct_intensity_sum(triangles, grid, cell_size,
                                                        point, ls, 1),
                                   IF fallback THEN cache_get(traced, 0) ELSE Zero) >>,
                        traced |-> fallback,
                        source |-> IF fallback
                                   THEN Some([points |-> <<point>>, lights |-> ls])
                                   ELSE None,
                        source_before |-> cache_source,
                        traces_before |-> trace_count,
                        previous |-> Previous(last_call)]
                /\ UNCHANGED <<photon_cache, cached_lights, cache_source>>
                /\ UNCHANGED <<geomVars, configVars, photonVars, samplerVars, survival_call>>

NextCalc == CalculateIntensityBatch \/ CalculateIntensity

SpecCalc == InitCalc /\ [][NextCalc]_vars

----------------------------------------------------------------------------
(* PhotonTracingConfig with any photons_per_light and kernel_radius, and   *)
(* trace_indirect_exposure run on it as one call                           *)

\* PhotonTracingConfig.__init__ stores what it is given
InitConfig ==
    /\ triangles \in PhotonMeshes
    /\ cell_size = GridCellSize
    /\ grid = build_grid(triangles, cell_size)
    /\ query = NoQuery
    /\ max_bounces \in 0..1
    /\ photons_per_light \in {-1, 0, 1}
    /\ kernel_radius \in { <<-1, 1>>, Zero, KernelRadius }
    /\ PhotonIdle
    /\ CalcIdle
    /\ SamplerIdle
    /\ survival_call = None

\* trace_indirect_exposure(points, ls) from call to return or exception
TraceIndirectExposureRun ==
    \E points \in SamplePointLists, ls \in LightLists \cup { <<>> } :
        /\ pc = "idle"
        /\ sample_points' = points
        /\ lights' = ls
        /\ IF power_per_photon_raises(ls, photons_per_light)
           THEN /\ pc' = "ZeroDivisionError"
                /\ indirect_exposure' = <<>>
           ELSE /\ pc' = "done"
                /\ indirect_exposure' \in
                       trace_indirect_exposure(triangles, points, ls, max_bounces,
                                               photons_per_light, kernel_radius)
        /\ UNCHANGED <<light_idx, photon_idx, photon_flux, photon_bounce,
                       photon_origin, ray_casts, deposit_hits, depth>>
        /\ UNCHANGED <<geomVars, configVars, calcVars, samplerVars, survival_call>>

\* the deposit loop's lookup and deposit at a position, on a SamplePointGrid
\* built as trace_indirect_exposure builds it (cell size optimal_cell_size
\* of the kernel radius; two of the points may coincide)
GetNearbyPointIndicesCall ==
    \E points \in SamplePointLists \cup { << <<0, 0, 0>>, <<3, 0, 1>>, <<0, 0, 0>> >> },
       position \in { <<x, 0, z>> : x \in 0..MaxCoord, z \in 0..1 } :
        /\ query' = [op |-> "get_nearby_point_indices",
                     points |-> points,
                     position |-> position,
                     indices |-> nearby_indices(points, optimal_cell_size(kernel_radius),
                                                position, kernel_radius),
                     deposited |-> deposit_flux([i \in 0..(Len(points) - 1) |-> Zero],
                                                points, position, One, kernel_radius)]
        /\ UNCHANGED <<triangles, cell_size, grid, configVars, photonVars, calcVars,
                       samplerVars, survival_call>>

\* a PhotonTracingConfig with a kernel radius that makes the cell size 0.1
\* (R / 2 below it), R / 2, or that is not positive
InitDeposit ==
    /\ triangles = <<>>
    /\ cell_size = GridCellSize
    /\ grid = build_grid(triangles, cell_size)
    /\ query = NoQuery
    /\ max_bounces = 1
    /\ photons_per_light = 1
    /\ kernel_radius \in { <<-1, 1>>, Zero, <<1, 10>>, <<1, 1>>, KernelRadius, <<3, 1>> }
    /\ PhotonIdle
    /\ CalcIdle
    /\ SamplerIdle
    /\ survival_call = None

SpecDeposit == InitDeposit /\ [][GetNearbyPointIndicesCall]_vars

SpecConfig == InitConfig /\ [][TraceIndirectExposureRun]_vars

\* IntensityConfig(max_bounces = 0)
InitZeroBounce == InitCalc /\ max_bounces = 0

\* a calculator configured with max_bounces = 0, and a PhotonTracer with
\* the same configuration run on its own
SpecZeroBounce == InitZeroBounce /\ [][NextCalc \/ TraceIndirectExposureRun]_vars

----------------------------------------------------------------------------
(* MeshSampler.generate_measurement_points and the process-wide random      *)
(* source.  The source is a deterministic function of its state: state rng  *)
(* makes random.random() return RandomStream[rng + 1] and move to the next  *)
(* state, and random.seed(seed) sets the state from the seed alone.         *)

\* the values drawn, by state (all with rational square roots)
RandomStream == << Zero, <<9, 16>>, <<1, 4>>, <<1, 4>>, Zero, <<9, 16>>, <<1, 4>> >>

\* (mutant) `if seed:`, which takes the seed 0 for no seed
seeded_Truthy(seed) == seed # None /\ seed # Some(0)

\* seed is not None
seeded(seed) == seed # None

\* Triangle.normal: edge1 x edge2, normalized (the zero vector stays zero)
unit_normal(tri) ==
    LET len == length(normal(tri))
    IN  [ i \in 1..3 |-> IF len = Zero THEN Zero ELSE RatDiv(<<normal(tri)[i], 1>>, len) ]

\* (mutant) the point is moved against the normal
sample_point_on_triangle_Below(tri, r1, r2, offset) ==
    LET root(n) == CHOOSE k \in 0..n : k * k = n
        sqrt_r1 == <<root(r1[1]), root(r1[2])>>
        u       == RatSub(One, sqrt_r1)
        v       == RatMul(sqrt_r1, RatSub(One, r2))
        w       == RatMul(sqrt_r1, r2)
        point   == [ i \in 1..3 |-> RatAdd(RatAdd(RatMul(u, <<tri.v0[i], 1>>),
                                                  RatMul(v, <<tri.v1[i], 1>>)),
                                           RatMul(w, <<tri.v2[i], 1>>)) ]
    IN  [ i \in 1..3 |-> RatSub(point[i], RatMul(unit_normal(tri)[i], offset)) ]

\* sample_point_on_triangle(triangle, offset) with the draws r1, r2
sample_point_on_triangle(tri, r1, r2, offset) ==
    LET root(n) == CHOOSE k \in 0..n : k * k = n
        sqrt_r1 == <<root(r1[1]), root(r1[2])>>
        u       == RatSub(One, sqrt_r1)
        v       == RatMul(sqrt_r1, RatSub(One, r2))
        w       == RatMul(sqrt_r1, r2)
        point   == [ i \in 1..3 |-> RatAdd(RatAdd(RatMul(u, <<tri.v0[i], 1>>),
                                                  RatMul(v, <<tri.v1[i], 1>>)),
                                           RatMul(w, <<tri.v2[i], 1>>)) ]
    IN  IF offset # Zero
        THEN [ i \in 1..3 |-> RatAdd(point[i], RatMul(unit_normal(tri)[i], offset)) ]
        ELSE point

\* (mutant) normal_dot > normal_threshold
points_are_similar_StrictNormal(point1, normal1, point2, normal2, d, s) ==
    LET diff(i) == RatSub(point1[i], point2[i])
        distSq  == RatAdd(RatAdd(RatMul(diff(1), diff(1)), RatMul(diff(2), diff(2))),
                          RatMul(diff(3), diff(3)))
        normal_dot == RatAdd(RatAdd(RatMul(normal1[1], normal2[1]),
                                    RatMul(normal1[2], normal2[2])),
                             RatMul(normal1[3], normal2[3]))
    IN  IF RatLt(RatMul(d, d), distSq) THEN FALSE ELSE RatLt(s, normal_dot)

\* points_are_similar: not farther apart than d, and normal_dot >= s
points_are_similar(point1, normal1, point2, normal2, d, s) ==
    LET diff(i) == RatSub(point1[i], point2[i])
        distSq  == RatAdd(RatAdd(RatMul(diff(1), diff(1)), RatMul(diff(2), diff(2))),
                          RatMul(diff(3), diff(3)))
        normal_dot == RatAdd(RatAdd(RatMul(normal1[1], normal2[1]),
                                    RatMul(normal1[2], normal2[2])),
                             RatMul(normal1[3], normal2[3]))
    IN  IF RatLt(RatMul(d, d), distSq) THEN FALSE ELSE RatLe(s, normal_dot)

\* (mutant) distance_threshold < 0 in place of <= 0
invalid_arguments_ZeroDistance(tris, N, d, s) ==
    \/ Len(tris) = 0
    \/ N <= 0
    \/ RatLt(d, Zero)
    \/ ~ (RatLe(Zero, s) /\ RatLe(s, One))

\* the argument checks that raise ValueError before anything is drawn
invalid_arguments(tris, N, d, s) ==
    \/ Len(tris) = 0
    \/ N <= 0
    \/ RatLe(d, Zero)
    \/ ~ (RatLe(Zero, s) /\ RatLe(s, One))

RECURSIVE prune_points_NewestFirst(_, _, _, _, _, _, _)
\* (mutant) a kept candidate is put in front of those kept before it
prune_points_NewestFirst(candidates, N, d, s, i, kept, used) ==
    IF i > Len(candidates) \/ Len(kept) >= N
    THEN kept
    ELSE IF i \in used
    THEN prune_points_NewestFirst(candidates, N, d, s, i + 1, kept, used)
    ELSE LET this == candidates[i]
             \* other is in a cell at most search_range = 2 away on every axis
             nearby(other) == \A a \in 1..3 : Abs(this.cell[a] - other.cell[a]) <= 2
         IN  prune_points_NewestFirst(candidates, N, d, s, i + 1, <<i>> \o kept,
                          used \cup {i} \cup
                          { j \in (i + 1)..Len(candidates) :
                              /\ j \notin used
                              /\ nearby(candidates[j])
                              /\ points_are_similar(this.point, this.normal,
                                                    candidates[j].point,
                                                    candidates[j].normal, d, s) })

RECURSIVE prune_points(_, _, _, _, _, _, _)
\* the pruning loop from candidate i on (candidates numbered from 1): the
\* indices of the candidates kept, given those kept and used so far
prune_points(candidates, N, d, s, i, kept, used) ==
    IF i > Len(candidates) \/ Len(kept) >= N
    THEN kept
    ELSE IF i \in used
    THEN prune_points(candidates, N, d, s, i + 1, kept, used)
    ELSE LET this == candidates[i]
             \* other is in a cell at most search_range = 2 away on every axis
             nearby(other) == \A a \in 1..3 : Abs(this.cell[a] - other.cell[a]) <= 2
         IN  prune_points(candidates, N, d, s, i + 1, Append(kept, i),
                          used \cup {i} \cup
                          { j \in (i + 1)..Len(candidates) :
                              /\ j \notin used
                              /\ nearby(candidates[j])
                              /\ points_are_similar(this.point, this.normal,
                                                    candidates[j].point,
                                                    candidates[j].normal, d, s) })

\* generate_measurement_points(triangles, num_points = N, distance_threshold
\* = d, normal_similarity_threshold = s, max_attempts_multiplier = mult,
\* seed, surface_offset) called with the random source in state st:
\* whether it raised, the points returned (with the normal of the triangle
\* each was sampled on and that triangle's number), the candidates it
\* generated, in order, and the state it leaves the random source in
generate_measurement_points(tris, N, d, s, mult, seed, surface_offset, st) ==
    LET P      == Len(RandomStream)
        st0    == IF seeded(seed) THEN (3 * seed[1] + 2) % P ELSE st
        M      == N * mult                                     \* max_attempts
        draw(k) == RandomStream[((st0 + k) % P) + 1]
        cumulative_areas[t \in 0..Len(tris)] ==
            IF t = 0 THEN Zero
            ELSE RatAdd(cumulative_areas[t - 1],
                        RatMul(<<1, 2>>, length(normal(tris[t]))))
        total_area == cumulative_areas[Len(tris)]
        \* bisect_right(cumulative_areas, rand_val), at most len(triangles) - 1
        triangle_idx(k) ==
            Min2(Cardinality({ t \in 1..Len(tris) :
                                 RatLe(RatDiv(cumulative_areas[t], total_area), draw(3 * k)) }),
                 Len(tris) - 1)
        grid_cell_size == RatMax(d, <<1, 10>>)
        point_to_cell(q) ==
            [ i \in 1..3 |-> (q[i][1] * grid_cell_size[2]) \div (q[i][2] * grid_cell_size[1]) ]
        candidate(k) ==
            LET selected_triangle == tris[triangle_idx(k) + 1]
                point == sample_point_on_triangle(selected_triangle,
                                                  draw(3 * k + 1), draw(3 * k + 2),
                                                  surface_offset)
            IN  [point |-> point, normal |-> unit_normal(selected_triangle),
                 cell |-> point_to_cell(point), triangle |-> triangle_idx(k) + 1]
        \* the list of candidates, each evaluated once
        candidate_points == SubSeq([k \in 1..M |-> candidate(k - 1)], 1, M)
        pruned == prune_points(candidate_points, N, d, s, 1, <<>>, {})
        count  == Min2(N, Len(pruned))                          \* pruned_points[:num_points]
    IN  IF invalid_arguments(tris, N, d, s)
        THEN [error |-> TRUE, points |-> <<>>, normals |-> <<>>, rng |-> st,
              candidates |-> <<>>, sources |-> <<>>]
        ELSE IF total_area = Zero
        THEN [error |-> TRUE, points |-> <<>>, normals |-> <<>>, rng |-> st0,
              candidates |-> <<>>, sources |-> <<>>]
        ELSE [error |-> FALSE,
              candidates |-> [k \in 1..M |-> [point  |-> candidate_points[k].point,
                                              normal |-> candidate_points[k].normal]],
              points  |-> [k \in 1..count |-> candidate_points[pruned[k]].point],
              normals |-> [k \in 1..count |-> candidate_points[pruned[k]].normal],
              sources |-> [k \in 1..count |-> candidate_points[pruned[k]].triangle],
              rng     |-> (st0 + 3 * M) % P]

\* a mesh (none, one of area zero, or a floor and a wall), a fresh random source
InitSampler ==
    /\ triangles \in { <<>>,
                       <<Triangle(<<0, 0, 0>>, <<2, 0, 0>>, <<4, 0, 0>>, <<1, 2>>)>>,
                       <<Floor, WallX>> }
    /\ cell_size = GridCellSize
    /\ grid = build_grid(triangles, cell_size)
    /\ query = NoQuery
    /\ max_bounces = 0
    /\ photons_per_light = 1
    /\ kernel_radius = KernelRadius
    /\ PhotonIdle
    /\ CalcIdle
    /\ rng = 0
    /\ sample_call = NoSample
    /\ survival_call = None

\* the arguments of the calls: valid ones asking for two points, and one
\* call for each invalid argument
SampleArguments ==
    { [num_points |-> 2, distance_threshold |-> d,
       normal_similarity_threshold |-> One, seed |-> seed] :
        d \in {One, <<3, 1>>}, seed \in {None, Some(0), Some(1)} }
    \cup
    { [num_points |-> c[1], distance_threshold |-> c[2],
       normal_similarity_threshold |-> c[3], seed |-> None] :
        c \in { <<0, One, One>>, <<2, Zero, One>>, <<2, <<-1, 1>>, One>>,
                <<2, One, <<-1, 10>>>>, <<2, One, <<11, 10>>>> } }

\* generate_measurement_points(triangles, N, d, s, 2, seed, 0.0).  repeats:
\* the call before had the same arguments; draws_between: the random source
\* is not in the state the call before left it in; same_as_before: the call
\* before had the same arguments and returned the same points.
GenerateMeasurementPointsCall ==
    \E args \in SampleArguments :
      \E r \in { generate_measurement_points(triangles, args.num_points,
                                              args.distance_threshold,
                                              args.normal_similarity_threshold,
                                              2, args.seed, Zero, rng) } :
        LET repeats == sample_call.op # "none" /\ sample_call.args = args
        IN  /\ sample_call' = [op |-> "generate_measurement_points", args |-> args,
                               error |-> r.error, points |-> r.points,
                               normals |-> r.normals, candidates |-> r.candidates,
                               rng_after |-> r.rng,
                               repeats |-> repeats,
                               draws_between |-> repeats /\ rng # sample_call.rng_after,
                               same_as_before |-> repeats /\ r.points = sample_call.points]
            /\ rng' = r.rng
            /\ UNCHANGED <<geomVars, configVars, photonVars, calcVars, survival_call>>

\* anything else in the process that draws from or seeds the random source
\* (other sampler calls, photon tracing)
OtherRandomDraws ==
    \E st \in 0..(Len(RandomStream) - 1) :
        /\ st # rng
        /\ rng' = st
        /\ UNCHANGED <<geomVars, configVars, photonVars, calcVars, sample_call,
                       survival_call>>

NextSampler == GenerateMeasurementPointsCall \/ OtherRandomDraws

SpecSampler == InitSampler /\ [][NextSampler]_vars

\* generate_measurement_points with a positive surface_offset (the default
\* 0.01, or 1, which puts points sampled at lattice points on the lattice)
GenerateOffsetPointsCall ==
    \E seed \in {None, Some(0)}, surface_offset \in { <<1, 100>>, One } :
      \E r \in { generate_measurement_points(triangles, 2, One, One, 2, seed,
                                              surface_offset, rng) } :
        /\ sample_call' = [op |-> "generate_measurement_points",
                           surface_offset |-> surface_offset,
                           error |-> r.error, points |-> r.points,
                           normals |-> r.normals, sources |-> r.sources]
        /\ rng' = r.rng
        /\ UNCHANGED <<geomVars, configVars, photonVars, calcVars, survival_call>>

\* Tracer.trace_ray from a returned measurement point (one with integer
\* coordinates) towards b, and the ray-triangle test of the same ray on the
\* triangle the point was sampled on
TraceRayFromPointCall ==
    /\ sample_call.op = "generate_measurement_points"
    /\ ~ sample_call.error
    /\ \E k \in 1..Len(sample_call.points), b \in QueryPoints :
           LET p == sample_call.points[k]
               a == <<p[1][1], p[2][1], p[3][1]>>
               D == subtract(b, a)
               source == sample_call.sources[k]
           IN  /\ \A i \in 1..3 : p[i][2] = 1
               /\ a # b
               /\ \E hit \in trace_ray(triangles, grid, cell_size, a, D, 4 * lengthSq(D)) :
                      query' = [op |-> "trace_ray", origin |-> a, direction |-> D,
                                hit |-> hit, source |-> source,
                                source_result |->
                                    ray_triangle_intersection(a, D, triangles[source])]
               /\ UNCHANGED <<triangles, cell_size, grid, configVars, photonVars, calcVars,
                              samplerVars, survival_call>>

SpecOffset == InitSampler /\ [][GenerateOffsetPointsCall \/ TraceRayFromPointCall]_vars

\* one bounce of a photon: the ray from a towards b is traced as the photon
\* tracer traces it (no max_distance: far enough to leave the scene, three
\* times its width here), and at a hit on tri the next
\* ray gets new_origin = hit point + tri.normal * 1e-3 and a direction
\* sample_cosine_weighted_hemisphere(tri.normal) returns, which has
\* normal . direction = cos_theta >= 0
PhotonBounceCall ==
    \E a \in QueryPoints, b \in QueryPoints :
        LET D == subtract(b, a)
        IN  /\ query = NoQuery
            /\ a # b
            /\ \E hit \in trace_ray(triangles, grid, cell_size, a, D,
                                     9 * (MaxCoord + 1) * (MaxCoord + 1)) :
                 \E new_direction \in { <<x, y, z>> : x \in -1..1, y \in -1..1, z \in -1..1 } :
                   /\ hit.hit
                   /\ new_direction # <<0, 0, 0>>
                   /\ dot(normal(triangles[hit.triangle]), new_direction) >= 0
                   /\ query' = [op |-> "bounce", origin |-> a, direction |-> D,
                                hit |-> hit,
                                new_origin |->
                                    [i \in 1..3 |->
                                        RatAdd(hit.point[i],
                                               RatMul(unit_normal(triangles[hit.triangle])[i],
                                                      <<1, 1000>>))],
                                new_direction |-> new_direction]
            /\ UNCHANGED <<triangles, cell_size, grid, configVars, photonVars, calcVars,
                           samplerVars, survival_call>>

SpecBounce == InitGeom /\ [][PhotonBounceCall \/ QueryReturn]_vars

----------------------------------------------------------------------------
(* PathogenCalculator.  Rate constants, irradiance and time are integers   *)
(* in the scenarios, so that 10 ** (-k1 * fluence) is an exact rational.   *)

\* (mutant) survival_rate = 10 ** (k1 * fluence)
calculate_survival_GrowthSign(intensity, exposure_time, pathogen) ==
    LET fluence == intensity * exposure_time
        n       == pathogen.k1 * fluence
        pow10[i \in 0..n] == IF i = 0 THEN 1 ELSE 10 * pow10[i - 1]
        f           == Rat(pathogen.percent_resistant, 100)
        effective_k == RatAdd(RatMul(<<pathogen.k1, 1>>, RatSub(One, f)),
                              RatMul(<<pathogen.k2, 1>>, f))
    IN  [pathogen |-> pathogen, fluence |-> fluence,
         survival_rate |-> <<pow10[n], 1>>,
         ech_uv |-> RatMul(RatMul(effective_k, <<fluence, 1>>), <<18, 5>>)]

\* PathogenCalculator.calculate_survival(intensity, exposure_time, pathogen)
calculate_survival(intensity, exposure_time, pathogen) ==
    LET fluence == intensity * exposure_time
        n       == pathogen.k1 * fluence                 \* -(-k1 * fluence), >= 0
        pow10[i \in 0..n] == IF i = 0 THEN 1 ELSE 10 * pow10[i - 1]
        f           == Rat(pathogen.percent_resistant, 100)
        effective_k == RatAdd(RatMul(<<pathogen.k1, 1>>, RatSub(One, f)),
                              RatMul(<<pathogen.k2, 1>>, f))
    IN  [pathogen |-> pathogen, fluence |-> fluence,
         survival_rate |-> <<1, pow10[n]>>,
         ech_uv |-> RatMul(RatMul(effective_k, <<fluence, 1>>), <<18, 5>>)]

InitPathogen ==
    /\ triangles = <<>>
    /\ cell_size = GridCellSize
    /\ grid = build_grid(triangles, cell_size)
    /\ query = NoQuery
    /\ max_bounces = 0
    /\ photons_per_light = 1
    /\ kernel_radius = KernelRadius
    /\ PhotonIdle
    /\ CalcIdle
    /\ SamplerIdle
    /\ survival_call = None

\* calculate_survival on a pathogen of the table; previous: what the call
\* before returned, when it was for the same pathogen and exposure time
CalculateSurvivalCall ==
    \E k1 \in 0..2, k2 \in 0..1, percent_resistant \in {0, 50, 100},
       intensity \in 0..2, exposure_time \in 1..2 :
        LET pathogen == [k1 |-> k1, k2 |-> k2, percent_resistant |-> percent_resistant]
        IN  /\ survival_call' =
                   [exposure_time |-> exposure_time,
                    result   |-> calculate_survival(intensity, exposure_time, pathogen),
                    previous |-> IF /\ survival_call # None
                                    /\ survival_call.result.pathogen = pathogen
                                    /\ survival_call.exposure_time = exposure_time
                                 THEN Some(survival_call.result)
                                 ELSE None]
            /\ UNCHANGED <<geomVars, configVars, photonVars, calcVars, samplerVars>>

SpecPathogen == InitPathogen /\ [][CalculateSurvivalCall]_vars

----------------------------------------------------------------------------
(* Geometry used to state the claims, independent of the Tracer's algorithm *)

\* six times the signed volume of the tetrahedron a, b, c, d
Volume6(a, b, c, d) == dot(subtract(b, a), cross(subtract(c, a), subtract(d, a)))

\* the segment from p to q crosses the interior of tri strictly between its
\* endpoints: p and q lie strictly on opposite sides of the plane, and the
\* line passes on the same side of all three edges
SegmentCrossesInterior(p, q, tri) ==
    LET sp == dot(normal(tri), subtract(p, tri.v0))
        sq == dot(normal(tri), subtract(q, tri.v0))
        w0 == Volume6(p, q, tri.v0, tri.v1)
        w1 == Volume6(p, q, tri.v1, tri.v2)
        w2 == Volume6(p, q, tri.v2, tri.v0)
    IN  /\ sp * sq < 0
        /\ \/ (w0 > 0 /\ w1 > 0 /\ w2 > 0)
           \/ (w0 < 0 /\ w1 < 0 /\ w2 < 0)

\* tri faces a ray that starts at p, in the sense of the facing test:
\* normal . (center - p) >= 0, strictly here (p is off the plane)
FacesRayFrom(p, tri) == dot(normal(tri), subtract(tri.v0, p)) > 0

\* every triangle of the mesh has its mirror image (same vertices, opposite
\* winding) in the mesh
DoubleSided(tris) ==
    \A i \in 1..Len(tris) : \E j \in 1..Len(tris) :
        /\ tris[j].v0 = tris[i].v0
        /\ tris[j].v1 = tris[i].v2
        /\ tris[j].v2 = tris[i].v1

\* the triangles of the mesh the ray-triangle test reports as hit by the ray
\* from origin along D at a distance t <= m * |D|, all triangles tested
BruteForceHits(tris, origin, D, m) ==
    { i \in 1..Len(tris) :
        LET r == ray_triangle_intersection(origin, D, tris[i])
        IN  r.hit /\ r.tn <= m * r.td }

\* parameters s in [0, m] at which the point origin + s * D lies on a cell
\* boundary of some axis, with both ends of the segment
BoundaryParams(cs, origin, D, m) ==
    LET crossings ==
            UNION { { Rat(cs * k - origin[i], D[i]) :
                        k \in (Min2(origin[i], origin[i] + m * D[i]) \div cs)
                              ..((Max2(origin[i], origin[i] + m * D[i]) \div cs) + 1) }
                    : i \in { j \in 1..3 : D[j] # 0 } }
    IN  { Zero, <<m, 1>> } \cup
        { q \in crossings : RatLe(Zero, q) /\ RatLe(q, <<m, 1>>) }

\* the cell (in the sense of _position_to_cell: floor of coordinate / cs)
\* that holds the point origin + s * D, for s = q[1] / q[2]
CellAt(cs, origin, D, q) ==
    [ i \in 1..3 |-> (origin[i] * q[2] + q[1] * D[i]) \div (q[2] * cs) ]

\* every cell that holds a point of the segment { origin + s * D : 0 <= s <= m }:
\* the cells of its boundary points and of a point between any two of them
SegmentCells(cs, origin, D, m) ==
    LET S    == BoundaryParams(cs, origin, D, m)
        mids == { RatMul(RatAdd(q1, q2), <<1, 2>>) : q1 \in S, q2 \in S }
    IN  { CellAt(cs, origin, D, q) : q \in S \cup mids }

\* the cells floor(min / cs) .. floor(max / cs) of a triangle's axis-aligned
\* bounds, from its vertices
BoundsCells(tri, cs) ==
    LET lo(a) == SetMin({tri.v0[a], tri.v1[a], tri.v2[a]}) \div cs
        hi(a) == SetMax({tri.v0[a], tri.v1[a], tri.v2[a]}) \div cs
    IN  { <<x, y, z>> : x \in lo(1)..hi(1), y \in lo(2)..hi(2), z \in lo(3)..hi(3) }

----------------------------------------------------------------------------
(* C1 *)

\* C1 as stated: with max_bounces > 0, a batch call with the same lights as
\* the batch call before it and a different point list invalidates the cache:
\* it runs the photon trace again, over its own points, and every indirect
\* value it returns comes from that trace.
C1_NewPointsRetraced ==
    ( /\ max_bounces > 0
      /\ last_call.op = "batch"
      /\ last_call.previous.op = "batch"
      /\ last_call.previous.lights = last_call.lights
      /\ last_call.previous.points # last_call.points )
    => ( /\ last_call.traced
         /\ last_call.source = Some([points |-> last_call.points,
                                     lights |-> last_call.lights]) )

----------------------------------------------------------------------------
(* C2 *)

----------------------------------------------------------------------------
(* C3 *)

----------------------------------------------------------------------------
(* C4 *)

\* C4 as stated: with max_bounces > 0, in every reachable state a
\* single-point call behaves as a one-shot batch: its indirect value is the
\* result of a photon trace over [point] with the given lights.
C4_SinglePointTraces ==
    ( /\ max_bounces > 0
      /\ last_call.op = "single" )
    => ( /\ last_call.traced
         /\ last_call.source = Some([points |-> last_call.points,
                                     lights |-> last_call.lights]) )

----------------------------------------------------------------------------
(* C5 *)

\* C5: no energy is added to the deposition map at a photon's first surface
\* hit.  During a trace, every step that changes indirect_exposure is an
\* invocation of _trace_reflected_photon at bounce >= 1, for a ray cast from
\* a surface after the ray from the lamp.
C5_NoDepositAtFirstHit ==
    [][ (pc # "idle" /\ indirect_exposure' # indirect_exposure)
        => ( /\ pc = "reflected"
             /\ photon_bounce >= 1
             /\ photon_origin = "surface"
             /\ ray_casts >= 1 ) ]_vars

\* the first photon has deposited at the hit of its second ray (its first
\* hit, one ray earlier, left the map at zero)
C5_Witness ==
    /\ light_idx = 0
    /\ photon_idx = 0
    /\ pc = "reflected"
    /\ ray_casts = 2
    /\ deposit_hits = 1
    /\ \E i \in DOMAIN indirect_exposure : RatLt(Zero, indirect_exposure[i])

----------------------------------------------------------------------------
(* C6 *)

\* C6: every photon terminates, and max_bounces = B alone bounds it: a photon
\* in flight casts at most B + 1 rays, runs the deposit loop at no more than
\* B hits, nests the bounce routine at most B + 1 deep, and always comes back
\* to the photon loop, whatever the hits, albedos and roulette outcomes.
C6_PhotonTerminatesWithinMaxBounces ==
    /\ [] ( /\ ray_casts <= max_bounces + 1
            /\ deposit_hits <= max_bounces
            /\ depth <= max_bounces + 1
            /\ photon_bounce <= max_bounces + 1 )
    /\ ( (pc \in {"from_light", "reflected"}) ~> (pc = "emit") )

\* a photon that used the whole budget: B + 1 rays, B deposit hits, the
\* bounce routine B + 1 deep, with B the largest max_bounces
C6_Witness ==
    /\ max_bounces = MaxBounces
    /\ pc = "reflected"
    /\ ray_casts = max_bounces + 1
    /\ deposit_hits = max_bounces
    /\ depth = max_bounces + 1

----------------------------------------------------------------------------
(* C7 *)

\* C7: with every lamp intensity >= 0, every albedo in [0, 1] and the kernel
\* radius > 0, every entry of the deposition map is >= 0 in every state of
\* trace_indirect_exposure, and no step of a trace decreases an entry.
C7_DepositionNonNegativeMonotone ==
    /\ [] ( ( /\ \A k \in 1..Len(lights) : RatLe(Zero, lights[k].intensity)
              /\ \A k \in 1..Len(triangles) :
                     /\ RatLe(Zero, albedo(triangles[k]))
                     /\ RatLe(albedo(triangles[k]), One)
              /\ RatLt(Zero, kernel_radius) )
            => \A i \in DOMAIN indirect_exposure : RatLe(Zero, indirect_exposure[i]) )
    /\ [][ ( /\ \A k \in 1..Len(lights) : RatLe(Zero, lights[k].intensity)
             /\ \A k \in 1..Len(triangles) :
                    /\ RatLe(Zero, albedo(triangles[k]))
                    /\ RatLe(albedo(triangles[k]), One)
             /\ RatLt(Zero, kernel_radius)
             /\ pc # "idle" )
           => \A i \in DOMAIN indirect_exposure :
                  RatLe(indirect_exposure[i], indirect_exposure'[i]) ]_vars

\* the second photon of a lamp of positive intensity has deposited
C7_Witness ==
    /\ lights = <<LampA>>
    /\ photon_idx = 1
    /\ pc = "reflected"
    /\ deposit_hits >= 1
    /\ \E i \in DOMAIN indirect_exposure : RatLt(Zero, indirect_exposure[i])

----------------------------------------------------------------------------
(* C8 *)

\* C8: for lamps of non-negative intensity (the profile values are
\* non-negative), every IntensityResult returned by calculate_intensity and
\* by calculate_intensity_batch, after any sequence of calls, has
\* direct_intensity >= 0, indirect_intensity >= 0 and
\* total_intensity = direct_intensity + indirect_intensity.
C8_ResultsNonNegativeAndAdditive ==
    ( /\ last_call.op # "none"
      /\ \A k \in 1..Len(last_call.lights) : RatLe(Zero, last_call.lights[k].intensity) )
    => \A i \in 1..Len(last_call.results) :
           LET r == last_call.results[i]
           IN  /\ RatLe(Zero, r.direct_intensity)
               /\ RatLe(Zero, r.indirect_intensity)
               /\ r.total_intensity = RatAdd(r.direct_intensity, r.indirect_intensity)

\* a call with lamps of non-negative intensity returned a result whose direct
\* and indirect parts are both positive
C8_Witness ==
    /\ last_call.op # "none"
    /\ \A k \in 1..Len(last_call.lights) : RatLe(Zero, last_call.lights[k].intensity)
    /\ \E i \in 1..Len(last_call.results) :
           /\ RatLt(Zero, last_call.results[i].direct_intensity)
           /\ RatLt(Zero, last_call.results[i].indirect_intensity)

----------------------------------------------------------------------------
(* C9 *)

\* C9 as stated: a triangle crossed by the segment from the measurement point
\* to the lamp, strictly between the two, makes that lamp's direct irradiance
\* at the point exactly 0, whatever the triangle's orientation.
C9_OccludedWhateverOrientation ==
    ( /\ query.op = "direct"
      /\ \E i \in 1..Len(triangles) :
            SegmentCrossesInterior(query.a, query.light.position, triangles[i]) )
    => query.value = Zero

\* C9 amended: a crossed triangle that faces the ray from the measurement
\* point (normal . (center - p) >= 0) makes the direct irradiance exactly 0.
C9_OccludedWhenFacing ==
    ( /\ query.op = "direct"
      /\ \E i \in 1..Len(triangles) :
            /\ SegmentCrossesInterior(query.a, query.light.position, triangles[i])
            /\ FacesRayFrom(query.a, triangles[i]) )
    => query.value = Zero

\* a direct-irradiance query whose segment crosses a facing triangle and
\* returned 0 where the same lamp gives a positive value in an empty scene
C9_Witness ==
    /\ query.op = "direct"
    /\ \E i \in 1..Len(triangles) :
          /\ SegmentCrossesInterior(query.a, query.light.position, triangles[i])
          /\ FacesRayFrom(query.a, triangles[i])
    /\ query.value = Zero
    /\ RatLt(Zero, calculate_direct_intensity(<<>>, build_grid(<<>>, cell_size),
                                              cell_size, query.a, query.light))

----------------------------------------------------------------------------
(* C10 *)

\* C10: in a mesh whose walls have triangles facing both sides,
\* is_path_clear(a, b) = is_path_clear(b, a).
C10_OcclusionSymmetry ==
    (query.op = "is_path_clear" /\ DoubleSided(triangles))
    => query.clear = is_path_clear(triangles, grid, cell_size, query.b, query.a)

----------------------------------------------------------------------------
(* C11 *)

\* C11 as stated: whenever some triangle of the mesh is hit by the ray at a
\* distance t <= max_distance, trace_ray returns a hit; its distance is the
\* minimum over all triangles of the mesh that the ray hits, and its triangle
\* and point are those of a hit at that distance.
C11_TraceRayAgreesWithBruteForce ==
    ( /\ query.op = "trace_ray"
      /\ BruteForceHits(triangles, query.origin, query.direction, query.max_factor) # {} )
    => ( /\ query.hit.hit
         /\ \A i \in 1..Len(triangles) :
                LET r == ray_triangle_intersection(query.origin, query.direction,
                                                   triangles[i])
                IN  r.hit => ~ closer(r, query.hit)
         /\ LET r == ray_triangle_intersection(query.origin, query.direction,
                                               triangles[query.hit.triangle])
            IN  /\ r.hit
                /\ r.tn * query.hit.td = query.hit.tn * r.td
                /\ query.hit.point = get_point(query.origin, query.direction, r.tn, r.td) )

----------------------------------------------------------------------------
(* C12 *)

\* C12 as stated: the walk of get_triangles_along_ray visits every grid cell
\* that holds a point of the segment { origin + t * direction : 0 <= t <=
\* max_distance }, and every triangle stored in such a cell is among the
\* returned candidates.
C12_WalkVisitsEveryIntersectedCell ==
    (query.op = "trace_ray")
    => \A c \in SegmentCells(cell_size, query.origin, query.direction, query.max_factor) :
           /\ c \in query.visited
           /\ get_cell(grid, c) \subseteq query.candidates

----------------------------------------------------------------------------
(* C13 *)

\* C13: in every state after the grid is built, every triangle T is in
\* grid[(i, j, k)] for every cell between floor(min / cell_size) and
\* floor(max / cell_size) of T's bounds, and no query changes the grid.
C13_GridHoldsTrianglesOfBounds ==
    /\ [] ( \A i \in 1..Len(triangles) :
              \A c \in BoundsCells(triangles[i], cell_size) :
                  /\ c \in DOMAIN grid
                  /\ \E k \in 1..Len(grid[c]) : grid[c][k] = i )
    /\ [][ grid' = grid ]_vars

\* a query was answered on a grid that holds a triangle in eight cells
C13_Witness ==
    /\ query.op \in {"is_path_clear", "direct"}
    /\ \E i \in 1..Len(triangles) :
          /\ Cardinality(BoundsCells(triangles[i], cell_size)) >= 8
          /\ \A c \in BoundsCells(triangles[i], cell_size) : i \in get_cell(grid, c)

-----------------------------------------------------------------------------
(* C14 *)

\* C14: every two distinct points generate_measurement_points returns are
\* farther apart than distance_threshold or have normals whose dot product
\* is below normal_similarity_threshold.
C14_ReturnedPointsPairwiseDissimilar ==
    (sample_call.op = "generate_measurement_points" /\ ~ sample_call.error) =>
        \A i, j \in 1..Len(sample_call.points) :
            i # j =>
                LET p == sample_call.points[i]
                    q == sample_call.points[j]
                    n == sample_call.normals[i]
                    m == sample_call.normals[j]
                    d == sample_call.args.distance_threshold
                    distSq == RatAdd(RatAdd(RatMul(RatSub(p[1], q[1]), RatSub(p[1], q[1])),
                                            RatMul(RatSub(p[2], q[2]), RatSub(p[2], q[2]))),
                                     RatMul(RatSub(p[3], q[3]), RatSub(p[3], q[3])))
                    normal_dot == RatAdd(RatAdd(RatMul(n[1], m[1]), RatMul(n[2], m[2])),
                                         RatMul(n[3], m[3]))
                IN  \/ RatLt(RatMul(d, d), distSq)
                    \/ RatLt(normal_dot, sample_call.args.normal_similarity_threshold)

\* two points were returned that are within the distance threshold of each
\* other, one on the floor and one on the wall
C14_Witness ==
    /\ sample_call.op = "generate_measurement_points"
    /\ ~ sample_call.error
    /\ Len(sample_call.points) = 2
    /\ sample_call.normals[1] # sample_call.normals[2]
    /\ LET p == sample_call.points[1]
           q == sample_call.points[2]
           d == sample_call.args.distance_threshold
       IN  RatLe(RatAdd(RatAdd(RatMul(RatSub(p[1], q[1]), RatSub(p[1], q[1])),
                               RatMul(RatSub(p[2], q[2]), RatSub(p[2], q[2]))),
                        RatMul(RatSub(p[3], q[3]), RatSub(p[3], q[3]))),
                 RatMul(d, d))

-----------------------------------------------------------------------------
(* C15 *)

-----------------------------------------------------------------------------
(* C16 *)

\* C16: a call of generate_measurement_points with the triangles, the
\* parameters and the non-null seed of the call before returns the same
\* point list, whatever was drawn from the random source in between.
C16_SameSeedSamePoints ==
    ( /\ sample_call.op = "generate_measurement_points"
      /\ sample_call.repeats
      /\ sample_call.args.seed # None ) => sample_call.same_as_before

\* a seeded call returned two points again after other draws in between
C16_Witness ==
    /\ sample_call.op = "generate_measurement_points"
    /\ sample_call.args.seed # None
    /\ sample_call.draws_between
    /\ sample_call.same_as_before
    /\ Len(sample_call.points) = 2

-----------------------------------------------------------------------------
(* C17 *)

\* C17: the photon tracer ends in an error exactly when photons_per_light
\* is negative or kernel_radius <= 0; with every other configuration
\* (photons_per_light = 0 included) trace_indirect_exposure returns a map.
C17_FailsExactlyForProgrammerErrors ==
    pc \in {"done", "ZeroDivisionError"} =>
        ( pc # "done" <=> (photons_per_light < 0 \/ RatLe(kernel_radius, Zero)) )

-----------------------------------------------------------------------------
(* C18 *)

\* C18: for a lamp whose type is not in the profile table the angular factor
\* is 1 at every angle: at an unoccluded point at distance d > 0 the direct
\* contribution is the lamp's declared intensity over 4 pi d^2.
C18_UnknownLampUnitAngularFactor ==
    ( /\ query.op = "direct"
      /\ query.light.lamp_type \notin DOMAIN LampProfiles
      /\ query.clear
      /\ query.a # query.b ) =>
        LET d2 == (query.a[1] - query.b[1]) * (query.a[1] - query.b[1])
                  + (query.a[2] - query.b[2]) * (query.a[2] - query.b[2])
                  + (query.a[3] - query.b[3]) * (query.a[3] - query.b[3])
        IN  query.value = RatDiv(query.light.intensity, RatMul(FourPi, <<d2, 1>>))

\* a lamp of unknown type lights a point it sees at more than 60 degrees
\* from its direction
C18_Witness ==
    /\ query.op = "direct"
    /\ query.light.lamp_type = "custom"
    /\ query.clear
    /\ query.b = <<4, 1, 2>>
    /\ query.a = <<0, 0, 2>>
    /\ query.value = <<7, 374>>

-----------------------------------------------------------------------------
(* C19 *)

-----------------------------------------------------------------------------
(* C20 *)

\* C20: with max_bounces = 0 every result of calculate_intensity and
\* calculate_intensity_batch has indirect_intensity = 0 and total_intensity
\* = direct_intensity, and trace_indirect_exposure returns 0 for every
\* point index.
C20_ZeroBouncesNoIndirect ==
    max_bounces = 0 =>
        /\ last_call.op # "none" =>
               \A i \in 1..Len(last_call.results) :
                   /\ last_call.results[i].indirect_intensity = Zero
                   /\ last_call.results[i].total_intensity =
                          last_call.results[i].direct_intensity
        /\ pc = "done" =>
               /\ DOMAIN indirect_exposure = 0..(Len(sample_points) - 1)
               /\ \A i \in DOMAIN indirect_exposure : indirect_exposure[i] = Zero

\* with max_bounces = 0, a lamp's photons were traced for two points and a
\* calculator call returned a positive direct intensity
C20_Witness ==
    /\ max_bounces = 0
    /\ pc = "done"
    /\ Len(sample_points) = 2
    /\ lights = <<LampA>>
    /\ last_call.op # "none"
    /\ \E i \in 1..Len(last_call.results) :
           RatLt(Zero, last_call.results[i].direct_intensity)

-----------------------------------------------------------------------------
(* C29 *)

\* C29: trace_ray(origin, direction, max_distance) never reports a hit whose
\* distance is greater than max_distance.
C29_NoHitBeyondMaxDistance ==
    (query.op = "trace_ray" /\ query.hit.hit) =>
        query.hit.tn <= query.max_factor * query.hit.td

-----------------------------------------------------------------------------
(* C22 *)

-----------------------------------------------------------------------------
(* C26 *)

-----------------------------------------------------------------------------
(* C30 *)

-----------------------------------------------------------------------------
(* C23 *)

\* C23: the points generate_measurement_points returns are a subsequence of
\* the candidates in generation order, starting with the first candidate
\* and at most num_points long; a candidate generated before the last
\* returned one is left out only if a returned candidate generated before it
\* is within distance_threshold of it with a dot product of the normals of
\* at least normal_similarity_threshold.
C23_ReturnedIsPrunedSubsequence ==
    (sample_call.op = "generate_measurement_points" /\ ~ sample_call.error) =>
        LET cand == sample_call.candidates
            n    == Len(sample_call.points)
            d    == sample_call.args.distance_threshold
            close(a, b) ==
                LET p == cand[a].point
                    q == cand[b].point
                    distSq == RatAdd(RatAdd(RatMul(RatSub(p[1], q[1]), RatSub(p[1], q[1])),
                                            RatMul(RatSub(p[2], q[2]), RatSub(p[2], q[2]))),
                                     RatMul(RatSub(p[3], q[3]), RatSub(p[3], q[3])))
                    normal_dot == RatAdd(RatAdd(RatMul(cand[a].normal[1], cand[b].normal[1]),
                                                RatMul(cand[a].normal[2], cand[b].normal[2])),
                                         RatMul(cand[a].normal[3], cand[b].normal[3]))
                IN  /\ RatLe(distSq, RatMul(d, d))
                    /\ RatLe(sample_call.args.normal_similarity_threshold, normal_dot)
        IN  /\ n >= 1
            /\ n <= sample_call.args.num_points
            /\ \E idx \in [1..n -> 1..Len(cand)] :
                   /\ idx[1] = 1
                   /\ \A k \in 1..(n - 1) : idx[k] < idx[k + 1]
                   /\ \A k \in 1..n : /\ sample_call.points[k] = cand[idx[k]].point
                                      /\ sample_call.normals[k] = cand[idx[k]].normal
                   /\ \A j \in 1..idx[n] :
                          (\A k \in 1..n : idx[k] # j) =>
                              \E k \in 1..n : idx[k] < j /\ close(idx[k], j)

\* two points were returned and the second is not the second candidate: a
\* candidate between them was left out
C23_Witness ==
    /\ sample_call.op = "generate_measurement_points"
    /\ ~ sample_call.error
    /\ Len(sample_call.points) = 2
    /\ sample_call.points[2] # sample_call.candidates[2].point
    /\ sample_call.points[2] # sample_call.candidates[1].point

-----------------------------------------------------------------------------
(* C25 *)

\* C25: on a grid of cell size max(0.1, R / 2), the list
\* get_nearby_point_indices(x, R) returns holds every index j with
\* |x - p_j| < R and holds no index twice, so the deposit through the grid
\* is the deposit over all points: point j receives flux * (1 - |x - p_j| / R)
\* when |x - p_j| < R and nothing otherwise.
C25_GridDepositIsBruteForce ==
    query.op = "get_nearby_point_indices" =>
        LET R == kernel_radius
            distSq(j) ==
                LET p == query.points[j + 1]
                    x == query.position
                IN  (x[1] - p[1]) * (x[1] - p[1]) + (x[2] - p[2]) * (x[2] - p[2])
                        + (x[3] - p[3]) * (x[3] - p[3])
            within(j) == RatLt(Zero, R) /\ RatLt(<<distSq(j), 1>>, RatMul(R, R))
        IN  /\ \A j \in 0..(Len(query.points) - 1) :
                   /\ within(j) => \E a \in 1..Len(query.indices) : query.indices[a] = j
                   /\ query.deposited[j] =
                          IF within(j)
                          THEN RatSub(One, RatDiv(length(subtract(query.position,
                                                                  query.points[j + 1])), R))
                          ELSE Zero
            /\ \A a, b \in 1..Len(query.indices) :
                   a # b => query.indices[a] # query.indices[b]
            /\ { query.indices[a] : a \in 1..Len(query.indices) } =
                   get_nearby_point_indices(query.points, optimal_cell_size(R),
                                            query.position, R)

\* a lookup with radius 3 found a point two cells away from the position,
\* listed before the point at the position itself
C25_Witness ==
    /\ query.op = "get_nearby_point_indices"
    /\ kernel_radius = <<3, 1>>
    /\ query.position = <<3, 0, 0>>
    /\ query.points = << <<1, 0, 0>>, <<3, 0, 0>> >>
    /\ query.indices = <<0, 1>>
    /\ RatLt(Zero, query.deposited[0])

-----------------------------------------------------------------------------
(* C27 *)

\* C27: every point generate_measurement_points returns for a positive
\* surface_offset lies on the positive-normal side of the plane of the
\* triangle it was sampled on, at signed distance surface_offset; and no ray
\* that starts at the point is reported to hit that triangle.
C27_OffsetPointsNeverHitSource ==
    /\ (sample_call.op = "generate_measurement_points" /\ ~ sample_call.error) =>
           \A k \in 1..Len(sample_call.points) :
               LET tri == triangles[sample_call.sources[k]]
                   p   == sample_call.points[k]
                   n   == normal(tri)
                   \* normal . (p - v0), for the unnormalized normal
                   side == RatAdd(RatAdd(RatMul(<<n[1], 1>>, RatSub(p[1], <<tri.v0[1], 1>>)),
                                         RatMul(<<n[2], 1>>, RatSub(p[2], <<tri.v0[2], 1>>))),
                                  RatMul(<<n[3], 1>>, RatSub(p[3], <<tri.v0[3], 1>>)))
               IN  /\ RatLt(Zero, side)
                   /\ RatMul(side, side) =
                          RatMul(RatMul(sample_call.surface_offset,
                                        sample_call.surface_offset),
                                 <<lengthSq(n), 1>>)
    /\ (query.op = "trace_ray") =>
           /\ ~ query.source_result.hit
           /\ query.hit.hit => query.hit.triangle # query.source

\* a ray from a point sampled on the floor and moved up by 1, aimed at a point
\* of the floor triangle's interior: it is reported to hit nothing
C27_Witness ==
    /\ query.op = "trace_ray"
    /\ triangles[query.source] = Floor
    /\ query.origin = <<0, 1, 0>>
    /\ query.direction = <<1, -1, 1>>
    /\ ~ query.hit.hit

-----------------------------------------------------------------------------
(* C28 *)

\* C28: when a photon's ray from origin o is accepted as a hit on a triangle,
\* the next ray's origin lies on the side of the triangle's plane that o is
\* on, and its direction does not point to the other side.
C28_BounceStaysOnArrivalSide ==
    query.op = "bounce" =>
        LET tri == triangles[query.hit.triangle]
            n   == normal(tri)
            side_o   == dot(n, subtract(query.origin, tri.v0))
            side_new ==
                RatAdd(RatAdd(RatMul(<<n[1], 1>>, RatSub(query.new_origin[1], <<tri.v0[1], 1>>)),
                              RatMul(<<n[2], 1>>, RatSub(query.new_origin[2], <<tri.v0[2], 1>>))),
                       RatMul(<<n[3], 1>>, RatSub(query.new_origin[3], <<tri.v0[3], 1>>)))
            side_dir == dot(n, query.new_direction)
        IN  /\ side_o # 0
            /\ side_o > 0 => (RatLt(Zero, side_new) /\ side_dir >= 0)
            /\ side_o < 0 => (RatLt(side_new, Zero) /\ side_dir <= 0)

-----------------------------------------------------------------------------
(* C24 *)

\* C24: with clustering_distance > 0 every index of a measurement point is
\* in exactly one cluster, exposure is accumulated per cluster center (one
\* value per center, positive only if a surface point a photon can hit is
\* within the kernel radius of the center), and in the map returned every
\* member of a cluster has exactly its cluster's value.
C24_ClusterExposureBroadcast ==
    query.op = "clusters" =>
        LET clusters == query.clusters
            members(k) == { clusters[k][m] : m \in 1..Len(clusters[k]) }
        IN  /\ \A i \in 0..(Len(sample_points) - 1) :
                   Cardinality({ km \in { <<k, m>> : k \in 1..Len(clusters), m \in 1..3 } :
                                   /\ km[2] <= Len(clusters[km[1]])
                                   /\ clusters[km[1]][km[2]] = i }) = 1
            /\ \A k \in 1..Len(clusters) : members(k) \subseteq 0..(Len(sample_points) - 1)
            /\ DOMAIN query.clustered_exposure = 0..(Len(clusters) - 1)
            /\ \A k \in 1..Len(clusters) :
                   /\ \A a \in 1..3 :
                          query.cluster_centers[k][a] * Len(clusters[k]) =
                              LET coords == [m \in 1..Len(clusters[k]) |->
                                                sample_points[clusters[k][m] + 1][a]]
                              IN  IF Len(coords) = 1 THEN coords[1]
                                  ELSE IF Len(coords) = 2 THEN coords[1] + coords[2]
                                  ELSE coords[1] + coords[2] + coords[3]
                   /\ RatLt(Zero, query.clustered_exposure[k - 1]) =>
                          \E t \in 1..Len(triangles) : \E x \in SurfacePoints(triangles[t]) :
                              RatLt(<<lengthSq(subtract(x, query.cluster_centers[k])), 1>>,
                                    RatMul(kernel_radius, kernel_radius))
                   /\ \A i \in members(k) :
                          indirect_exposure[i] = query.clustered_exposure[k - 1]

\* points 0 and 2 share a cluster and a positive exposure deposited against
\* their center; point 1, alone in its cluster, has a different value
C24_Witness ==
    /\ query.op = "clusters"
    /\ query.clusters = << <<0, 2>>, <<1>> >>
    /\ query.cluster_centers[1] = <<1, 0, 0>>
    /\ RatLt(Zero, indirect_exposure[0])
    /\ indirect_exposure[2] = indirect_exposure[0]
    /\ indirect_exposure[1] # indirect_exposure[0]

-----------------------------------------------------------------------------
(* C21 *)

====
